---- MODULE Spec2Model ----
(***************************************************************************)
(* Chunked transfer protocol of Send: the server's upload sessions         *)
(* (src/server/routes/standardChunkedUpload.js), the client's              *)
(* ChunkedUploader (src/app/fileSender.js) and the FileReceiver            *)
(* (src/unnamed/part_001) with the page's download handler.                *)
(*                                                                         *)
(* SpecServer runs the server's request handlers; SpecClient runs one      *)
(* call of ChunkedUploader.uploadChunked against a network whose answers   *)
(* are nondeterministic; SpecDownload runs one download against a service  *)
(* worker whose answers are nondeterministic.                              *)
(***************************************************************************)
EXTENDS Integers, Sequences, FiniteSets, TLC

(***************************************************************************)
(* Bounds of the model.                                                    *)
(***************************************************************************)
\* upload sessions ever created by init
MaxSessions == 1
\* largest well-formed chunk index a request carries
MaxIndex == 1
\* bytes are 0..MaxByte
MaxByte == 1
\* longest request body, in bytes
MaxBodyLen == 1
\* finalize requests ever received
MaxFinalizeReqs == 2
\* cleanup requests ever received
MaxCleanupReqs == 2
\* chunk requests whose body is being received at the same time
MaxReceiving == 2
\* how far past the start, and past the session timeout, the clock is told
\* apart, in milliseconds
MaxDrift == 1
\* largest fileMetadata.size an init request declares
MaxInitSize == 2
\* largest chunkSize an init request declares
MaxInitChunkSize == 1
\* longest source stream the uploader is given, in bytes
MaxSourceLen == 3
\* largest fileInfo.size of a download, in bytes
MaxFileSize == 2
\* largest chunkSize, maxParallelChunks, maxRetries and retryDelay a caller
\* configures
MaxChunkSize == 2
MaxParallelChunks == 2
MaxRetries == 1
MaxRetryDelay == 1

(***************************************************************************)
(* Defaults of ChunkedUploader's constructor.                              *)
(***************************************************************************)
DefaultChunkSize == 5242880
DefaultMaxParallelChunks == 3
DefaultMaxRetries == 3
DefaultRetryDelay == 1000

(***************************************************************************)
(* The reaper's staleness threshold (timeout, in milliseconds).            *)
(***************************************************************************)
SessionTimeout == 3600000

(***************************************************************************)
(* downloadStream's limit of progress polls that report no change.         *)
(***************************************************************************)
HangLimit == 30

(***************************************************************************)
(* Values.                                                                 *)
(***************************************************************************)
\* parseInt of a header that is no number
NaN == -1000
\* the x-chunk-hash header when the request carries none (undefined: falsy)
NoHash == 0
\* the x-upload-id header when the request carries none
NoUploadId == 0

Bytes == 0..MaxByte

RECURSIVE SeqsUpTo(_, _)
SeqsUpTo(S, n) ==
  IF n = 0 THEN {<<>>}
  ELSE LET shorter == SeqsUpTo(S, n - 1)
       IN  shorter \cup {Append(s, x) : s \in {t \in shorter : Len(t) = n - 1}, x \in S}

\* the raw bodies a chunk request may carry (the empty body included)
Bodies == SeqsUpTo(Bytes, MaxBodyLen)

\* what parseInt(req.headers['x-chunk-index']) may yield
ParsedIndexes == {NaN} \cup (0..MaxIndex)

UploadIds == 1..MaxSessions

HashAlgorithms == {"SHA-256", "unsupported"}

\* crypto.createHash(alg).update(data).digest('base64'): a function of the
\* bytes that tells any two bodies apart (positional code, leading 1)
RECURSIVE Digest(_)
Digest(data) ==
  IF Len(data) = 0 THEN 1
  ELSE Digest(SubSeq(data, 1, Len(data) - 1)) * (MaxByte + 2) + data[Len(data)] + 1

\* the digests a request may declare
DeclaredHashes == {NoHash} \cup {Digest(b) : b \in Bodies}

Ceil(a, b) == (a + b - 1) \div b

VARIABLES
  uploadSessions,   \* Map uploadId -> session
  systemMetrics,    \* [activeUploads, totalUploads]
  storageFiles,     \* the durable store: fileId -> bytes
  finalizeReqs,     \* the finalize requests received, in order of arrival
  lastRequest,      \* the init or chunk request handled last
  lastResponse,     \* and the response it got
  idsIssued,        \* how many upload ids crypto.randomBytes has produced
  now,              \* Date.now()
  traceRequests,    \* whether lastRequest and lastResponse are recorded
  cleanupReqs,      \* the cleanup requests received, in order of arrival
  storageDeletes    \* the file ids storage.delete has been called with

\* what cleanupUpload and the reaper add to the server's state
lifecycleVars == <<cleanupReqs, storageDeletes>>

VARIABLES
  receiving         \* the chunk requests whose body the PUT /chunk route is
                    \* receiving, by the slot of their connection

routeVars == <<receiving>>

serverVars == <<uploadSessions, systemMetrics, storageFiles, finalizeReqs,
                lastRequest, lastResponse, idsIssued, now, traceRequests,
                lifecycleVars, routeVars>>

VARIABLES
  config,           \* this.config of the ChunkedUploader
  source,           \* the buffers encryptedStream delivers, in order
  readPos,          \* how many of them reader.read() has returned
  pc,               \* where uploadChunked is suspended, or how it ended
  outcome,          \* the message of the error uploadChunked rejected with
  done,             \* uploadChunked's local done
  chunkBuffer,      \* ... chunkBuffer
  uploaderChunkIndex, \* ... chunkIndex
  totalSize,        \* ... totalSize
  activeUploads,    \* the keys of uploadChunked's activeUploads map
  tasks,            \* the calls of uploadChunk, by chunk index
  cancelled,        \* this.cancelled
  actualUploadedSize, \* this.actualUploadedSize
  progress,         \* the arguments of the last onProgress call, and whether
                    \* the source was exhausted when it was made
  finalizeCalls,    \* the finalize requests finalizeUpload has sent
  dispatched        \* the chunk indices uploadChunk was called with, in order

clientVars == <<config, source, readPos, pc, outcome, done, chunkBuffer,
                uploaderChunkIndex, totalSize, activeUploads, tasks, cancelled,
                actualUploadedSize, progress, finalizeCalls, dispatched>>

VARIABLES
  fileSize,         \* this.fileInfo.size of the FileReceiver
  noSave,           \* the noSave argument of the download under way
  receiverState,    \* this.state
  downloadRequest,  \* this.downloadRequest: null, or whose cancel() it holds
  strategy,         \* the method download(options) called
  dlPc,             \* where that call is suspended
  prog,             \* downloadStream's local prog
  hangs,            \* ... hangs
  lastPoll,         \* how the last progress poll ended
  swInitError,      \* the error the init message ended with
  blobOutcome,      \* how the call of downloadBlob ended
  dlOutcome,        \* how the call of download(options) ended
  cancelCalled,     \* FileReceiver.cancel() was called during this download
  cancelPosted,     \* ... and posted a cancel message to the service worker
  pagePc,           \* where the page's download handler is
  pageOutcome,      \* what the page's download handler ended with
  history           \* the calls of download(options) that have ended

receiverVars == <<fileSize, noSave, receiverState, downloadRequest, strategy,
                  dlPc, prog, hangs, lastPoll, swInitError, blobOutcome,
                  dlOutcome, cancelCalled, cancelPosted, pagePc, pageOutcome,
                  history>>

vars == <<serverVars, clientVars, receiverVars>>

(***************************************************************************)
(* Requests and responses of the handlers that answer synchronously.       *)
(***************************************************************************)
NoRequest ==
  [op |-> "none", uploadId |-> NoUploadId, chunkIndex |-> 0, rawBody |-> <<>>,
   chunkHash |-> NoHash, hashAlgorithm |-> "SHA-256", size |-> 0,
   authorization |-> FALSE]

ChunkRequest(uploadId, chunkIndex, rawBody, chunkHash, hashAlgorithm) ==
  [op |-> "chunk", uploadId |-> uploadId, chunkIndex |-> chunkIndex,
   rawBody |-> rawBody, chunkHash |-> chunkHash,
   hashAlgorithm |-> hashAlgorithm, size |-> 0, authorization |-> FALSE]

InitRequest(size, authorization) ==
  [op |-> "init", uploadId |-> NoUploadId, chunkIndex |-> 0, rawBody |-> <<>>,
   chunkHash |-> NoHash, hashAlgorithm |-> "SHA-256", size |-> size,
   authorization |-> authorization]

\* wasAlreadyStored is what the handler logs with 'chunk-uploaded' (line 263)
Response(status, code, uploadId, receivedChunks, totalChunks, isComplete, wasAlreadyStored) ==
  [status |-> status, code |-> code, uploadId |-> uploadId,
   receivedChunks |-> receivedChunks, totalChunks |-> totalChunks,
   isComplete |-> isComplete, wasAlreadyStored |-> wasAlreadyStored]

ErrorResponse(status, code) == Response(status, code, NoUploadId, 0, 0, FALSE, FALSE)

NoResponse == ErrorResponse(0, "none")

\* the handler's request and response, as the next state records them
Traced(request, response) ==
  /\ lastRequest' = (IF traceRequests THEN request ELSE NoRequest)
  /\ lastResponse' = (IF traceRequests THEN response ELSE NoResponse)

(***************************************************************************)
(* initChunkedUpload                                                       *)
(***************************************************************************)
NewSession(uploadId, size, chunkSize, enableVerification) ==
  [uploadId |-> uploadId,
   fileId |-> uploadId,
   totalSize |-> size,
   chunkSize |-> chunkSize,
   totalChunks |-> Ceil(size, chunkSize),
   receivedChunks |-> 0,
   chunks |-> <<>>,
   createdAt |-> now,
   lastActivity |-> now,
   enableVerification |-> enableVerification]

\* the check of fileMetadata left out
InitVerdictSizeUnchecked(size, authorization) ==
  IF ~authorization THEN "MISSING_AUTHORIZATION" ELSE "ok"

\* lines 92-107: the validation of the required fields; size = 0 stands for
\* fileMetadata missing, or its size 0 or absent
InitVerdict(size, authorization) ==
  IF size = 0 THEN "INVALID_FILE_METADATA"
  ELSE IF ~authorization THEN "MISSING_AUTHORIZATION"
  ELSE "ok"

initChunkedUpload(size, authorization, chunkSize, enableVerification) ==
  LET request == InitRequest(size, authorization)
      verdict == InitVerdict(size, authorization)
  IN
  /\ IF verdict # "ok"
     THEN /\ Traced(request, ErrorResponse(400, verdict))
          /\ UNCHANGED <<uploadSessions, systemMetrics, idsIssued>>
     ELSE LET uploadId == idsIssued + 1
              session == NewSession(uploadId, size, chunkSize, enableVerification)
          IN  /\ idsIssued < MaxSessions
              /\ idsIssued' = uploadId
              /\ uploadSessions' =
                   [u \in DOMAIN uploadSessions \cup {uploadId} |->
                      IF u = uploadId THEN session ELSE uploadSessions[u]]
              /\ systemMetrics' =
                   [activeUploads |-> systemMetrics.activeUploads + 1,
                    totalUploads |-> systemMetrics.totalUploads + 1]
              /\ Traced(request,
                        Response(200, "ok", uploadId, 0, session.totalChunks, FALSE, FALSE))
  /\ UNCHANGED <<storageFiles, finalizeReqs, now, traceRequests>>
  /\ UNCHANGED <<lifecycleVars, routeVars, clientVars, receiverVars>>

(***************************************************************************)
(* uploadChunk                                                             *)
(***************************************************************************)
\* the digest check left out
VerifyChunkSkipped(session, rawBody, chunkHash, hashAlgorithm) == "pass"

\* lines 235-247: the digest check; "throw" is createHash refusing the algorithm
VerifyChunk(session, rawBody, chunkHash, hashAlgorithm) ==
  IF chunkHash # NoHash /\ session.enableVerification
  THEN IF hashAlgorithm # "SHA-256" THEN "throw"
       ELSE IF Digest(rawBody) # chunkHash THEN "mismatch"
       ELSE "pass"
  ELSE "pass"

\* session.chunks.set(chunkIndex, chunkData)
MapSet(chunks, chunkIndex, chunkData) ==
  [i \in DOMAIN chunks \cup {chunkIndex} |->
     IF i = chunkIndex THEN chunkData ELSE chunks[i]]

\* the bytes of a re-sent index appended to the bytes stored
StoreChunkAppending(session, chunkIndex, chunkData) ==
  LET chunks == MapSet(session.chunks, chunkIndex,
                       IF chunkIndex \in DOMAIN session.chunks
                       THEN session.chunks[chunkIndex] \o chunkData
                       ELSE chunkData)
  IN  [session EXCEPT !.chunks = chunks,
                      !.receivedChunks = Cardinality(DOMAIN chunks),
                      !.lastActivity = now]

\* receivedChunks counted per accepted request instead of per stored index
StoreChunkCounting(session, chunkIndex, chunkData) ==
  [session EXCEPT !.chunks = MapSet(session.chunks, chunkIndex, chunkData),
                  !.receivedChunks = session.receivedChunks + 1,
                  !.lastActivity = now]

\* the chunk map replaced by a map of this chunk alone
StoreChunkAlone(session, chunkIndex, chunkData) ==
  [session EXCEPT !.chunks = MapSet(<<>>, chunkIndex, chunkData),
                  !.receivedChunks = 1,
                  !.lastActivity = now]

\* lines 249-253
StoreChunk(session, chunkIndex, chunkData) ==
  LET chunks == MapSet(session.chunks, chunkIndex, chunkData)
  IN  [session EXCEPT !.chunks = chunks,
                      !.receivedChunks = Cardinality(DOMAIN chunks),
                      !.lastActivity = now]

\* lines 197-288: the handler, called by the route once the body is there
uploadChunk(uploadId, chunkIndex, rawBody, chunkHash, hashAlgorithm) ==
  LET request == ChunkRequest(uploadId, chunkIndex, rawBody, chunkHash, hashAlgorithm)
  IN
  /\ IF uploadId = NoUploadId
     THEN /\ Traced(request, ErrorResponse(400, "MISSING_UPLOAD_ID"))
          /\ UNCHANGED uploadSessions
     ELSE IF uploadId \notin DOMAIN uploadSessions
     THEN /\ Traced(request, ErrorResponse(404, "SESSION_NOT_FOUND"))
          /\ UNCHANGED uploadSessions
     ELSE IF Len(rawBody) = 0
     THEN /\ Traced(request, ErrorResponse(400, "NO_CHUNK_DATA"))
          /\ UNCHANGED uploadSessions
     ELSE LET session == uploadSessions[uploadId]
              verdict == VerifyChunk(session, rawBody, chunkHash, hashAlgorithm)
              stored == StoreChunk(session, chunkIndex, rawBody)
          IN  IF verdict = "throw"
              THEN /\ Traced(request, ErrorResponse(500, "CHUNK_ERROR"))
                   /\ UNCHANGED uploadSessions
              ELSE IF verdict = "mismatch"
              THEN /\ Traced(request, ErrorResponse(400, "INTEGRITY_ERROR"))
                   /\ UNCHANGED uploadSessions
              ELSE /\ uploadSessions' = [uploadSessions EXCEPT ![uploadId] = stored]
                   /\ Traced(request,
                             Response(200, "ok", uploadId, stored.receivedChunks,
                                      stored.totalChunks,
                                      stored.receivedChunks = stored.totalChunks,
                                      chunkIndex \in DOMAIN session.chunks))
  /\ UNCHANGED <<systemMetrics, storageFiles, finalizeReqs, idsIssued, now,
                 traceRequests>>
  /\ UNCHANGED <<lifecycleVars, clientVars, receiverVars>>

(***************************************************************************)
(* PUT /chunk (src/unnamed/part_003)                                       *)
(***************************************************************************)
Slots == 1..MaxReceiving

\* no request on this connection
NoReceiving ==
  [at |-> "idle", uploadId |-> NoUploadId, chunkIndex |-> 0, chunkHash |-> NoHash,
   hashAlgorithm |-> "SHA-256", sent |-> <<>>, body |-> <<>>]

\* lines 33-35: a request whose body is still to come; sent is what the
\* client sends, body what the 'data' events have delivered
Receiving(uploadId, chunkIndex, sent, chunkHash, hashAlgorithm) ==
  [at |-> "receiving", uploadId |-> uploadId, chunkIndex |-> chunkIndex,
   chunkHash |-> chunkHash, hashAlgorithm |-> hashAlgorithm, sent |-> sent,
   body |-> <<>>]

\* lines 58-61: req.rawBody is there already, the handler is called at once
putChunk(uploadId, chunkIndex, rawBody, chunkHash, hashAlgorithm) ==
  /\ uploadChunk(uploadId, chunkIndex, rawBody, chunkHash, hashAlgorithm)
  /\ UNCHANGED routeVars

\* lines 31-57: the request arrives without rawBody; the listeners are set
putChunk_arrives(k, uploadId, chunkIndex, sent, chunkHash, hashAlgorithm) ==
  /\ receiving[k].at = "idle"
  /\ receiving' = [receiving EXCEPT
       ![k] = Receiving(uploadId, chunkIndex, sent, chunkHash, hashAlgorithm)]
  /\ UNCHANGED <<uploadSessions, systemMetrics, storageFiles, finalizeReqs,
                 lastRequest, lastResponse, idsIssued, now, traceRequests>>
  /\ UNCHANGED <<lifecycleVars, clientVars, receiverVars>>

\* lines 39-43: a 'data' event delivers the next n bytes
putChunk_data(k, n) ==
  /\ receiving[k].at = "receiving"
  /\ n \in 1..(Len(receiving[k].sent) - Len(receiving[k].body))
  /\ receiving' = [receiving EXCEPT
       ![k].body = @ \o SubSeq(receiving[k].sent, Len(@) + 1, Len(@) + n)]
  /\ UNCHANGED <<uploadSessions, systemMetrics, storageFiles, finalizeReqs,
                 lastRequest, lastResponse, idsIssued, now, traceRequests>>
  /\ UNCHANGED <<lifecycleVars, clientVars, receiverVars>>

\* lines 45-49: the 'end' event: req.rawBody = body, the handler is called
putChunk_end(k) ==
  /\ receiving[k].at = "receiving"
  /\ Len(receiving[k].body) = Len(receiving[k].sent)
  /\ uploadChunk(receiving[k].uploadId, receiving[k].chunkIndex, receiving[k].body,
                 receiving[k].chunkHash, receiving[k].hashAlgorithm)
  /\ receiving' = [receiving EXCEPT ![k] = NoReceiving]

\* lines 51-57: the 'error' event
putChunk_error(k) ==
  /\ receiving[k].at = "receiving"
  /\ Traced(ChunkRequest(receiving[k].uploadId, receiving[k].chunkIndex,
                         receiving[k].body, receiving[k].chunkHash,
                         receiving[k].hashAlgorithm),
            ErrorResponse(400, "CHUNK_DATA_ERROR"))
  /\ receiving' = [receiving EXCEPT ![k] = NoReceiving]
  /\ UNCHANGED <<uploadSessions, systemMetrics, storageFiles, finalizeReqs,
                 idsIssued, now, traceRequests>>
  /\ UNCHANGED <<lifecycleVars, clientVars, receiverVars>>

(***************************************************************************)
(* finalizeChunkedUpload                                                   *)
(***************************************************************************)
\* the totalChunks a finalize request may declare
FinalizeTotals == 0..(MaxIndex + 1)

\* the count check as "fewer than declared" instead of "other than declared"
FinalizeVerdictAtLeast(session, totalChunks) ==
  IF session.receivedChunks < totalChunks THEN "INCOMPLETE_UPLOAD"
  ELSE IF \E i \in 0..(totalChunks - 1) : i \notin DOMAIN session.chunks
  THEN "FINALIZE_ERROR"
  ELSE "ok"

\* lines 306-325: the count check, then the loop over 0..totalChunks-1
FinalizeVerdict(session, totalChunks) ==
  IF session.receivedChunks # totalChunks THEN "INCOMPLETE_UPLOAD"
  ELSE IF \E i \in 0..(totalChunks - 1) : i \notin DOMAIN session.chunks
  THEN "FINALIZE_ERROR"
  ELSE "ok"

\* the chunks concatenated from the highest index down
RECURSIVE ReconstructFileDescending(_, _)
ReconstructFileDescending(chunks, totalChunks) ==
  IF totalChunks <= 0 THEN <<>>
  ELSE chunks[totalChunks - 1] \o ReconstructFileDescending(chunks, totalChunks - 1)

\* lines 318-327: Buffer.concat of chunks 0..totalChunks-1
RECURSIVE ReconstructFile(_, _)
ReconstructFile(chunks, totalChunks) ==
  IF totalChunks <= 0 THEN <<>>
  ELSE ReconstructFile(chunks, totalChunks - 1) \o chunks[totalChunks - 1]

\* uploadSessions.delete(uploadId)
MapDelete(map, key) == [k \in DOMAIN map \ {key} |-> map[k]]

\* the session left in the registry
FinalizeKeepSession(sessions, uploadId) == sessions

\* line 334
FinalizeDeleteSession(sessions, uploadId) == MapDelete(sessions, uploadId)

FinalizeRecord(uploadId, totalChunks, at, status, code, fileId, keysSeen, calledSet, completeFile) ==
  [uploadId |-> uploadId,
   totalChunks |-> totalChunks,
   pc |-> at,
   status |-> status,
   code |-> code,
   fileId |-> fileId,
   completeFile |-> completeFile,
   \* what the request saw and did, kept for the properties
   keysExact |-> (uploadId \in DOMAIN uploadSessions /\ keysSeen = 0..(totalChunks - 1)),
   calledSet |-> calledSet,
   afterSuccess |-> \E k \in DOMAIN finalizeReqs :
                      /\ finalizeReqs[k].uploadId = uploadId
                      /\ finalizeReqs[k].status = 200]

\* lines 293-331: from the request's arrival to the call of storage.set
finalizeChunkedUpload(uploadId, totalChunks) ==
  /\ Len(finalizeReqs) < MaxFinalizeReqs
  /\ finalizeReqs' = Append(finalizeReqs,
       IF uploadId \notin DOMAIN uploadSessions
       THEN FinalizeRecord(uploadId, totalChunks, "done", 404, "SESSION_NOT_FOUND",
                           NoUploadId, {}, FALSE, <<>>)
       ELSE LET session == uploadSessions[uploadId]
                verdict == FinalizeVerdict(session, totalChunks)
                keys == DOMAIN session.chunks
            IN  IF verdict = "INCOMPLETE_UPLOAD"
                THEN FinalizeRecord(uploadId, totalChunks, "done", 400, verdict,
                                    session.fileId, keys, FALSE, <<>>)
                ELSE IF verdict = "FINALIZE_ERROR"
                THEN FinalizeRecord(uploadId, totalChunks, "done", 500, verdict,
                                    session.fileId, keys, FALSE, <<>>)
                ELSE FinalizeRecord(uploadId, totalChunks, "awaitSet", 0, "pending",
                                    session.fileId, keys, TRUE,
                                    ReconstructFile(session.chunks, totalChunks)))
  /\ UNCHANGED <<uploadSessions, systemMetrics, storageFiles, lastRequest,
                 lastResponse, idsIssued, now, traceRequests>>
  /\ UNCHANGED <<lifecycleVars, routeVars, clientVars, receiverVars>>

\* lines 331-354: storage.set resolved
finalizeStorageSetResolved(r) ==
  /\ r \in DOMAIN finalizeReqs
  /\ finalizeReqs[r].pc = "awaitSet"
  /\ LET req == finalizeReqs[r]
     IN  /\ storageFiles' = MapSet(storageFiles, req.fileId, req.completeFile)
         /\ uploadSessions' = FinalizeDeleteSession(uploadSessions, req.uploadId)
         /\ systemMetrics' = [systemMetrics EXCEPT !.activeUploads = @ - 1]
         /\ finalizeReqs' = [finalizeReqs EXCEPT ![r].pc = "done",
                                                 ![r].status = 200,
                                                 ![r].code = "ok"]
  /\ UNCHANGED <<lastRequest, lastResponse, idsIssued, now, traceRequests>>
  /\ UNCHANGED <<lifecycleVars, routeVars, clientVars, receiverVars>>

\* lines 331, 356-364: storage.set rejected
finalizeStorageSetRejected(r) ==
  /\ r \in DOMAIN finalizeReqs
  /\ finalizeReqs[r].pc = "awaitSet"
  /\ finalizeReqs' = [finalizeReqs EXCEPT ![r].pc = "done",
                                          ![r].status = 500,
                                          ![r].code = "FINALIZE_ERROR"]
  /\ UNCHANGED <<uploadSessions, systemMetrics, storageFiles, lastRequest,
                 lastResponse, idsIssued, now, traceRequests>>
  /\ UNCHANGED <<lifecycleVars, routeVars, clientVars, receiverVars>>

(***************************************************************************)
(* GET /status/:uploadId (src/unnamed/part_003)                            *)
(***************************************************************************)
StatusRequest(uploadId) == [NoRequest EXCEPT !.op = "status", !.uploadId = uploadId]

\* lines 98-106 and 111: what a status query returns of a session; progress
\* is (receivedChunks / totalChunks) * 100, here its integral part
StatusSnapshot(session) ==
  [uploadId |-> session.uploadId,
   receivedChunks |-> session.receivedChunks,
   totalChunks |-> session.totalChunks,
   totalSize |-> session.totalSize,
   lastActivity |-> session.lastActivity,
   createdAt |-> session.createdAt,
   progress |-> IF session.totalChunks > 0
                THEN (session.receivedChunks * 100) \div session.totalChunks
                ELSE 0,
   isComplete |-> session.receivedChunks = session.totalChunks]

\* lines 108-112
StatusResponse(session) ==
  [status |-> 200, code |-> "ok", session |-> StatusSnapshot(session)]

\* an unknown upload id answered as a session that has received nothing
StatusOfEmptySession == Response(200, "ok", NoUploadId, 0, 0, FALSE, FALSE)

\* lines 89-95: the answer for an upload id the registry does not hold
StatusNotFound == ErrorResponse(404, "SESSION_NOT_FOUND")

getStatus(uploadId) ==
  /\ IF uploadId \notin DOMAIN uploadSessions
     THEN Traced(StatusRequest(uploadId), StatusNotFound)
     ELSE Traced(StatusRequest(uploadId), StatusResponse(uploadSessions[uploadId]))
  /\ UNCHANGED <<uploadSessions, systemMetrics, storageFiles, finalizeReqs,
                 idsIssued, now, traceRequests>>
  /\ UNCHANGED <<lifecycleVars, routeVars, clientVars, receiverVars>>

(***************************************************************************)
(* cleanupUpload                                                           *)
(***************************************************************************)
\* storage.delete(fileId): the store drops the file when it is called
StorageDelete(files, fileIds) == [f \in DOMAIN files \ fileIds |-> files[f]]

CleanupRecord(uploadId, at, status, fileId) ==
  [uploadId |-> uploadId, pc |-> at, status |-> status, fileId |-> fileId]

\* lines 370-379: from the request's arrival to the call of storage.delete,
\* or to the answer when the registry holds no such session
cleanupUpload(uploadId) ==
  /\ Len(cleanupReqs) < MaxCleanupReqs
  /\ IF uploadId \in DOMAIN uploadSessions
     THEN LET fileId == uploadSessions[uploadId].fileId
          IN  /\ cleanupReqs' = Append(cleanupReqs,
                   CleanupRecord(uploadId, "awaitDelete", 0, fileId))
              /\ storageDeletes' = storageDeletes \cup {fileId}
              /\ storageFiles' = StorageDelete(storageFiles, {fileId})
     ELSE /\ cleanupReqs' = Append(cleanupReqs,
               CleanupRecord(uploadId, "done", 200, NoUploadId))
          /\ UNCHANGED <<storageDeletes, storageFiles>>
  /\ UNCHANGED <<uploadSessions, systemMetrics, finalizeReqs, lastRequest,
                 lastResponse, idsIssued, now, traceRequests>>
  /\ UNCHANGED <<routeVars, clientVars, receiverVars>>

\* lines 378-392: storage.delete has settled, resolved or rejected
cleanupStorageDeleteSettled(r) ==
  /\ r \in DOMAIN cleanupReqs
  /\ cleanupReqs[r].pc = "awaitDelete"
  /\ uploadSessions' = MapDelete(uploadSessions, cleanupReqs[r].uploadId)
  /\ systemMetrics' = [systemMetrics EXCEPT !.activeUploads = @ - 1]
  /\ cleanupReqs' = [cleanupReqs EXCEPT ![r].pc = "done", ![r].status = 200]
  /\ UNCHANGED <<storageFiles, finalizeReqs, lastRequest, lastResponse,
                 idsIssued, now, traceRequests, storageDeletes>>
  /\ UNCHANGED <<routeVars, clientVars, receiverVars>>

(***************************************************************************)
(* The periodic cleanup of expired sessions, and the clock.                *)
(***************************************************************************)
\* the threshold taken twice
StaleAtTwiceTheTimeout(session, t) == t - session.lastActivity > 2 * SessionTimeout

\* the threshold reached instead of exceeded
StaleAtTheTimeout(session, t) == t - session.lastActivity >= SessionTimeout

\* line 410
Stale(session, t) == t - session.lastActivity > SessionTimeout

\* a sweep that leaves the artifacts of the sessions it removes in the store
sessionReaperKeepingArtifacts ==
  LET stale == {u \in DOMAIN uploadSessions : Stale(uploadSessions[u], now)}
  IN  /\ uploadSessions' = [u \in DOMAIN uploadSessions \ stale |-> uploadSessions[u]]
      /\ systemMetrics' =
           [systemMetrics EXCEPT !.activeUploads = @ - Cardinality(stale)]
      /\ UNCHANGED <<storageDeletes, storageFiles>>
      /\ UNCHANGED <<finalizeReqs, lastRequest, lastResponse, idsIssued, now,
                     traceRequests, cleanupReqs>>
      /\ UNCHANGED <<routeVars, clientVars, receiverVars>>

\* lines 405-421: one run of the interval's callback
sessionReaper ==
  LET stale == {u \in DOMAIN uploadSessions : Stale(uploadSessions[u], now)}
      files == {uploadSessions[u].fileId : u \in stale}
  IN  /\ uploadSessions' = [u \in DOMAIN uploadSessions \ stale |-> uploadSessions[u]]
      /\ systemMetrics' =
           [systemMetrics EXCEPT !.activeUploads = @ - Cardinality(stale)]
      /\ storageDeletes' = storageDeletes \cup files
      /\ storageFiles' = StorageDelete(storageFiles, files)
      /\ UNCHANGED <<finalizeReqs, lastRequest, lastResponse, idsIssued, now,
                     traceRequests, cleanupReqs>>
      /\ UNCHANGED <<routeVars, clientVars, receiverVars>>

\* the values of Date.now() the model tells apart: up to MaxDrift after the
\* start, and up to MaxDrift after the timeout has passed since the start
Clock == (0..MaxDrift) \cup (SessionTimeout..(SessionTimeout + MaxDrift))

\* time passes: Date.now() is t from now on
tick(t) ==
  /\ t \in Clock
  /\ t > now
  /\ now' = t
  /\ UNCHANGED <<uploadSessions, systemMetrics, storageFiles, finalizeReqs,
                 lastRequest, lastResponse, idsIssued, traceRequests>>
  /\ UNCHANGED <<lifecycleVars, routeVars, clientVars, receiverVars>>

(***************************************************************************)
(* ChunkedUploader (src/app/fileSender.js)                                 *)
(***************************************************************************)
\* value || default
OrDefault(value, default) == IF value = 0 THEN default ELSE value

\* lines 10-23; estimatedSize: encryptedSize(originalFileSize), 0 when the
\* caller passed no originalFileSize
UploaderConfig(chunkSize, maxParallelChunks, maxRetries, retryDelay, estimatedSize) ==
  [chunkSize |-> OrDefault(chunkSize, DefaultChunkSize),
   maxParallelChunks |-> OrDefault(maxParallelChunks, DefaultMaxParallelChunks),
   maxRetries |-> OrDefault(maxRetries, DefaultMaxRetries),
   retryDelay |-> OrDefault(retryDelay, DefaultRetryDelay),
   estimatedSize |-> estimatedSize]

\* encryptedSize(originalFileSize) for a stream of n encrypted bytes: absent
\* (0), or an estimate that the stream's length reaches
EncryptedSizes(n) == 0..n

\* the bytes of a stream of n bytes, each named by its place
SourceBytes(n) == [i \in 1..n |-> i]

\* every way a stream delivers these bytes in non-empty read buffers
RECURSIVE Splits(_)
Splits(bytes) ==
  IF Len(bytes) = 0 THEN {<<>>}
  ELSE UNION {{<<SubSeq(bytes, 1, k)>> \o rest :
                 rest \in Splits(SubSeq(bytes, k + 1, Len(bytes)))} :
              k \in 1..Len(bytes)}

\* lines 108-113: the buffers copied one after the other into chunkData
RECURSIVE Combine(_)
Combine(buffers) ==
  IF Len(buffers) = 0 THEN <<>>
  ELSE Combine(SubSeq(buffers, 1, Len(buffers) - 1)) \o buffers[Len(buffers)]

Pow2(n) == IF n <= 0 THEN 1 ELSE 2 ^ n

MinOf(S) == CHOOSE x \in S : \A y \in S : x <= y

MaxOf2(a, b) == IF a >= b THEN a ELSE b

\* a call of uploadChunk: its chunk, where it is, the fetches it has made,
\* the failures it has caught, the backoff delays it has waited, and the
\* number of the fetch that was first answered 404 (0: none was)
NewTask(chunkData) ==
  [chunkData |-> chunkData, status |-> "hashing", attempts |-> 0,
   retries |-> 0, delays |-> <<>>, notFoundAt |-> 0]

\* lines 253-265: the fetch rejects
NetworkError == "network error"

\* an await that only a fulfilled promise ends
SettledWhenFulfilled(task) == task.status = "fulfilled"

\* lines 140, 149: the promise of a call of uploadChunk has settled
Settled(task) == task.status \in {"fulfilled", "rejected"}

\* started and not settled
InFlight == {c \in DOMAIN tasks : ~Settled(tasks[c])}

\* a backoff that grows by retryDelay per failure
BackoffDelayLinear(retryDelay, retries) == retryDelay * retries

\* line 300: the delay of the backoff after the retries-th failure
BackoffDelay(retryDelay, retries) == retryDelay * Pow2(retries - 1)

\* the retry bound reached one failure early
RetriesExhaustedEarly(retries, maxRetries) == retries >= maxRetries

\* line 294
RetriesExhausted(retries, maxRetries) == retries > maxRetries

\* the window checked with > instead of >=
WindowFullLate(active, maxParallelChunks) == Cardinality(active) > maxParallelChunks

\* line 138
WindowFull(active, maxParallelChunks) == Cardinality(active) >= maxParallelChunks

\* line 96: whether the inner loop reads on
BufferFilling(isDone, bufferSize, chunkSize) == ~isDone /\ bufferSize < chunkSize

\* the chunk cut at chunkSize, the rest of the last buffer dropped
ChunkOfTruncated(buffers, chunkSize) ==
  LET all == Combine(buffers)
  IN  SubSeq(all, 1, IF Len(all) < chunkSize THEN Len(all) ELSE chunkSize)

\* lines 106-113: the chunk made of the buffers read
ChunkOf(buffers, chunkSize) == Combine(buffers)

\* lines 85-89 and 148: the top of the while loop, with this value of done
LoopTop(isDone) ==
  /\ done' = isDone
  /\ chunkBuffer' = <<>>
  /\ IF isDone
     THEN pc' = "awaitAll" /\ outcome' = outcome
     ELSE IF cancelled
     THEN pc' = "rejected" /\ outcome' = "Upload cancelled"
     ELSE pc' = "read" /\ outcome' = outcome

\* lines 63-79: initializeUpload has answered
uploadChunked_afterInit(ok) ==
  /\ pc = "init"
  /\ IF ~ok
     THEN /\ pc' = "rejected"
          /\ outcome' = "Init failed"
          /\ UNCHANGED <<done, chunkBuffer>>
     ELSE IF cancelled
     THEN /\ pc' = "rejected"
          /\ outcome' = "Upload cancelled"
          /\ UNCHANGED <<done, chunkBuffer>>
     ELSE LoopTop(FALSE)
  /\ UNCHANGED <<config, source, readPos, uploaderChunkIndex, totalSize, activeUploads,
                 tasks, cancelled, actualUploadedSize, progress, finalizeCalls,
                 dispatched>>
  /\ UNCHANGED <<serverVars, receiverVars>>

\* lines 97-146: reader.read() has returned
uploadChunked_afterRead ==
  /\ pc = "read"
  /\ LET isDone == readPos >= Len(source)
         buffers == IF isDone THEN chunkBuffer
                    ELSE Append(chunkBuffer, source[readPos + 1])
         bufferSize == Len(Combine(buffers))
         chunkData == ChunkOf(buffers, config.chunkSize)
         active == activeUploads \cup {uploaderChunkIndex}
     IN  /\ readPos' = IF isDone THEN readPos ELSE readPos + 1
         /\ IF BufferFilling(isDone, bufferSize, config.chunkSize)
            THEN /\ chunkBuffer' = buffers
                 /\ done' = isDone
                 /\ UNCHANGED <<pc, outcome, uploaderChunkIndex, totalSize,
                                activeUploads, tasks, dispatched>>
            ELSE IF Len(buffers) > 0
            THEN /\ totalSize' = totalSize + Len(chunkData)
                 /\ tasks' = MapSet(tasks, uploaderChunkIndex, NewTask(chunkData))
                 /\ dispatched' = Append(dispatched, uploaderChunkIndex)
                 /\ activeUploads' = active
                 /\ IF WindowFull(active, config.maxParallelChunks)
                    THEN /\ pc' = "awaitOldest"
                         /\ done' = isDone
                         /\ chunkBuffer' = <<>>
                         /\ UNCHANGED <<outcome, uploaderChunkIndex>>
                    ELSE /\ uploaderChunkIndex' = uploaderChunkIndex + 1
                         /\ LoopTop(isDone)
            ELSE /\ LoopTop(isDone)
                 /\ UNCHANGED <<uploaderChunkIndex, totalSize, activeUploads, tasks,
                                dispatched>>
  /\ UNCHANGED <<config, source, cancelled, actualUploadedSize, progress,
                 finalizeCalls>>
  /\ UNCHANGED <<serverVars, receiverVars>>

\* lines 139-144: the oldest active upload has settled
uploadChunked_afterOldest ==
  /\ pc = "awaitOldest"
  /\ LET oldestIndex == MinOf(activeUploads)
     IN  /\ Settled(tasks[oldestIndex])
         /\ IF tasks[oldestIndex].status = "rejected"
            THEN /\ pc' = "rejected"
                 /\ outcome' = "Chunk upload failed"
                 /\ UNCHANGED <<done, chunkBuffer, uploaderChunkIndex, activeUploads>>
            ELSE /\ activeUploads' = activeUploads \ {oldestIndex}
                 /\ uploaderChunkIndex' = uploaderChunkIndex + 1
                 /\ LoopTop(done)
  /\ UNCHANGED <<config, source, readPos, totalSize, tasks, cancelled,
                 actualUploadedSize, progress, finalizeCalls,
                 dispatched>>
  /\ UNCHANGED <<serverVars, receiverVars>>

\* Promise.allSettled: fulfilled once every promise has settled
PromiseAllSettled(statuses) ==
  IF statuses \subseteq {"fulfilled", "rejected"} THEN "fulfilled" ELSE "pending"

\* line 149: Promise.all over promises in these states
PromiseAll(statuses) ==
  IF "rejected" \in statuses THEN "rejected"
  ELSE IF statuses \subseteq {"fulfilled"} THEN "fulfilled"
  ELSE "pending"

\* the empty file let through
EmptyUploadUnchecked(totalChunks) == FALSE

\* line 158
EmptyUpload(totalChunks) == totalChunks = 0

\* a chunk count that is one too high
FinalizeCallCountingFromOne(totalChunks) == [totalChunks |-> totalChunks + 1]

\* lines 316-336: the finalize request
FinalizeCall(totalChunks) == [totalChunks |-> totalChunks]

\* an onProgress call
ProgressCall(uploaded, total, isDone) ==
  [uploaded |-> uploaded, total |-> total, exhausted |-> isDone]

\* lines 149-164: Promise.all over the active uploads has settled
uploadChunked_afterAll ==
  /\ pc = "awaitAll"
  /\ LET all == PromiseAll({tasks[c].status : c \in activeUploads})
         totalChunks == uploaderChunkIndex
     IN  /\ all # "pending"
         /\ IF all = "rejected"
            THEN /\ pc' = "rejected"
                 /\ outcome' = "Chunk upload failed"
                 /\ UNCHANGED <<progress, finalizeCalls>>
            ELSE /\ progress' = ProgressCall(actualUploadedSize, actualUploadedSize, done)
                 /\ IF EmptyUpload(totalChunks)
                    THEN /\ pc' = "rejected"
                         /\ outcome' = "No data to upload"
                         /\ UNCHANGED finalizeCalls
                    ELSE /\ pc' = "finalize"
                         /\ outcome' = outcome
                         /\ finalizeCalls' = Append(finalizeCalls, FinalizeCall(totalChunks))
  /\ UNCHANGED <<config, source, readPos, done, chunkBuffer, uploaderChunkIndex,
                 totalSize, activeUploads, tasks, cancelled, actualUploadedSize,
                 dispatched>>
  /\ UNCHANGED <<serverVars, receiverVars>>

\* lines 164-181: the finalize request has been answered
uploadChunked_afterFinalize(ok) ==
  /\ pc = "finalize"
  /\ IF ~ok
     THEN pc' = "rejected" /\ outcome' = "Finalize failed"
     ELSE IF cancelled
     THEN pc' = "rejected" /\ outcome' = "Upload cancelled"
     ELSE pc' = "resolved" /\ outcome' = outcome
  /\ UNCHANGED <<config, source, readPos, done, chunkBuffer, uploaderChunkIndex,
                 totalSize, activeUploads, tasks, cancelled, actualUploadedSize,
                 progress, finalizeCalls,
                 dispatched>>
  /\ UNCHANGED <<serverVars, receiverVars>>

\* lines 240-253: the digest is computed, the first fetch is sent
uploadChunk_hashed(c) ==
  /\ c \in DOMAIN tasks
  /\ tasks[c].status = "hashing"
  /\ tasks' = [tasks EXCEPT ![c].status = "sending", ![c].attempts = @ + 1]
  /\ UNCHANGED <<config, source, readPos, pc, outcome, done, chunkBuffer,
                 uploaderChunkIndex, totalSize, activeUploads, cancelled,
                 actualUploadedSize, progress, finalizeCalls,
                 dispatched>>
  /\ UNCHANGED <<serverVars, receiverVars>>

\* the estimate alone, Math.max left out
ProgressTotalEstimatedOnly(estimatedSize, read) ==
  IF estimatedSize > 0 THEN estimatedSize ELSE read

\* lines 126-130: progressTotal, with totalSize bytes read so far
ProgressTotal(estimatedSize, read) ==
  MaxOf2(IF estimatedSize > 0 THEN estimatedSize ELSE read, read)

\* lines 267-284 and 123-133: the fetch is answered ok; the progress callback
uploadChunk_fetchOk(c) ==
  /\ c \in DOMAIN tasks
  /\ tasks[c].status = "sending"
  /\ tasks' = [tasks EXCEPT ![c].status = "fulfilled"]
  /\ LET uploaded == actualUploadedSize + Len(tasks[c].chunkData)
     IN  /\ actualUploadedSize' = uploaded
         /\ progress' = ProgressCall(uploaded,
                                     ProgressTotal(config.estimatedSize, totalSize),
                                     done)
  /\ UNCHANGED <<config, source, readPos, pc, outcome, done, chunkBuffer,
                 uploaderChunkIndex, totalSize, activeUploads, cancelled,
                 finalizeCalls,
                 dispatched>>
  /\ UNCHANGED <<serverVars, receiverVars>>

\* lines 285-301: the fetch failed, or was answered not ok
uploadChunk_fetchFails(c, failure) ==
  /\ c \in DOMAIN tasks
  /\ tasks[c].status = "sending"
  /\ LET retries == tasks[c].retries + 1
     IN  tasks' = [tasks EXCEPT
           ![c].notFoundAt = IF failure = "404" /\ @ = 0 THEN tasks[c].attempts ELSE @,
           ![c].retries = retries,
           ![c].status = IF RetriesExhausted(retries, config.maxRetries)
                         THEN "rejected" ELSE "backoff",
           ![c].delays = IF RetriesExhausted(retries, config.maxRetries)
                         THEN @
                         ELSE Append(@, BackoffDelay(config.retryDelay, retries))]
  /\ UNCHANGED <<config, source, readPos, pc, outcome, done, chunkBuffer,
                 uploaderChunkIndex, totalSize, activeUploads, cancelled,
                 actualUploadedSize, progress, finalizeCalls,
                 dispatched>>
  /\ UNCHANGED <<serverVars, receiverVars>>

\* lines 299-301, 251-253: the backoff has elapsed, the next fetch is sent
uploadChunk_backoffElapsed(c) ==
  /\ c \in DOMAIN tasks
  /\ tasks[c].status = "backoff"
  /\ tasks' = [tasks EXCEPT ![c].status = "sending", ![c].attempts = @ + 1]
  /\ UNCHANGED <<config, source, readPos, pc, outcome, done, chunkBuffer,
                 uploaderChunkIndex, totalSize, activeUploads, cancelled,
                 actualUploadedSize, progress, finalizeCalls,
                 dispatched>>
  /\ UNCHANGED <<serverVars, receiverVars>>

\* lines 351-353
cancel ==
  /\ pc \notin {"idle", "resolved", "rejected"}
  /\ ~cancelled
  /\ cancelled' = TRUE
  /\ UNCHANGED <<config, source, readPos, pc, outcome, done, chunkBuffer,
                 uploaderChunkIndex, totalSize, activeUploads, tasks,
                 actualUploadedSize, progress, finalizeCalls,
                 dispatched>>
  /\ UNCHANGED <<serverVars, receiverVars>>

(***************************************************************************)
(* FileSender.upload and the upload handler of the page, on the error a    *)
(* chunked upload ends with.                                               *)
(***************************************************************************)
\* lines 463-465, 496-498: the message of new Error(0), which FileSender.upload
\* throws when it finds the upload cancelled before its start
CancelSentinel == "0"

\* lines 536-540: FileSender.upload rethrows the error uploadChunked rejected
\* with, as it is
FileSenderUploadError(message) == message

\* src/unnamed/part_002 lines 167-186: what the page does with the error of
\* sender.upload
UploadErrorHandling(message) ==
  IF message = CancelSentinel THEN "cancelled: do nothing"
  ELSE IF message = "401" THEN "refresh the session and retry"
  ELSE "failure: report, go to /error"

\* lines 24-38 and 79-83: the uploader as constructed, uploadChunked called
ClientState(cfg, buffers, at) ==
  /\ config = cfg
  /\ source = buffers
  /\ readPos = 0
  /\ pc = at
  /\ outcome = "none"
  /\ done = FALSE
  /\ chunkBuffer = <<>>
  /\ uploaderChunkIndex = 0
  /\ totalSize = 0
  /\ activeUploads = {}
  /\ tasks = <<>>
  /\ cancelled = FALSE
  /\ actualUploadedSize = 0
  /\ progress = ProgressCall(0, 0, FALSE)
  /\ finalizeCalls = <<>>
  /\ dispatched = <<>>

\* no upload under way
InitClientIdle == ClientState(UploaderConfig(0, 0, 0, 0, 0), <<>>, "idle")

(***************************************************************************)
(* FileReceiver (src/unnamed/part_001) and the download handler of the     *)
(* page (src/unnamed/part_002).                                            *)
(***************************************************************************)
\* lines 192-236: the errors sendMessageToSw rejects with
SwFailures ==
  {"Service worker not supported", "Service worker not ready",
   "Service worker controller not available",
   "Service worker communication timeout", "bad response from serviceWorker",
   "error reply", "Failed to send message to service worker"}

\* lines 218-227: what a message to the service worker ends with: the reply's
\* data, or one of the errors
SwResolved(bytes) == [ok |-> TRUE, progress |-> bytes, error |-> "none"]

SwRejected(error) == [ok |-> FALSE, progress |-> 0, error |-> error]

\* the answers to a progress request of this download
ProgressReplies ==
  {SwResolved(p) : p \in 0..fileSize} \cup {SwRejected(m) : m \in SwFailures}

\* the answers to the init message
InitReplies == {SwResolved(0)} \cup {SwRejected(m) : m \in SwFailures}

\* the status of the response to the fetch of a noSave download
FetchStatuses == {"200", "400", "404"}

\* what downloadFile, the decryption and saveFile end downloadBlob with
BlobErrors == {"0", "400", "404", "decryption failed"}

\* lines 365-375
HungDownload == "hung download"

\* line 365
HangDetected(count) == count > HangLimit

\* lines 388-394: what downloadStream's catch block throws for an error with
\* this message (no string is thrown inside the try block)
CatchOutcome(message) == IF message = "400" THEN "0" ELSE message

\* the blob download awaited inside the try block
FallbackOutcomeCaught(result) == CatchOutcome(result)

\* line 321: return this.downloadBlob(noSave): the promise is returned as it
\* is, and the catch block does not see its rejection
FallbackOutcome(result) == result

\* a call of download(options) that has ended
Ended(which, result) == [strategy |-> which, outcome |-> result]

\* the call of download(options) ends
Settle(result) ==
  /\ dlPc' = "settled"
  /\ dlOutcome' = result
  /\ history' = Append(history, Ended(strategy, result))

\* lines 239-248: downloadBlob is called
EnterDownloadBlob ==
  /\ receiverState' = "downloading"
  /\ dlPc' = "downloadFile"

\* lines 279-317: downloadStream is called
EnterDownloadStream ==
  /\ downloadRequest' = "stream"
  /\ receiverState' = "downloading"
  /\ dlPc' = "swInit"

\* lines 397-402: download(options), on a receiver that is not downloading
Download(stream, ns) ==
  /\ strategy' = IF stream THEN "stream" ELSE "blob"
  /\ noSave' = ns
  /\ prog' = 0
  /\ hangs' = 0
  /\ lastPoll' = "none"
  /\ swInitError' = "none"
  /\ blobOutcome' = "pending"
  /\ dlOutcome' = "pending"
  /\ cancelCalled' = FALSE
  /\ cancelPosted' = FALSE
  /\ IF stream THEN EnterDownloadStream
     ELSE EnterDownloadBlob /\ UNCHANGED downloadRequest

\* a caller other than the page calls download(options)
download(stream, ns) ==
  /\ pagePc = "idle"
  /\ dlPc = "idle"
  /\ Download(stream, ns)
  /\ pagePc' = "direct"
  /\ UNCHANGED <<fileSize, pageOutcome, history>>
  /\ UNCHANGED <<serverVars, clientVars>>

\* the loop left one byte early
KeepPollingShort(bytes, size) == bytes + 1 < size

\* line 345: the condition of the while loop
KeepPolling(bytes, size) == bytes < size

\* lines 345 and 384-387: the test of the while loop, with this value of prog
PollOrComplete(p) ==
  IF KeepPolling(p, fileSize)
  THEN /\ dlPc' = "poll"
       /\ UNCHANGED <<downloadRequest, receiverState, dlOutcome, history>>
  ELSE /\ downloadRequest' = "null"
       /\ receiverState' = "complete"
       /\ Settle("complete")

\* lines 388-394: an error thrown inside the try block
ThrowInStream(message) ==
  /\ downloadRequest' = "null"
  /\ Settle(CatchOutcome(message))
  /\ UNCHANGED receiverState

\* lines 316-345: the init message has been answered
downloadStream_afterInit(reply) ==
  /\ dlPc = "swInit"
  /\ IF ~reply.ok
     THEN /\ swInitError' = reply.error
          /\ EnterDownloadBlob
          /\ UNCHANGED <<downloadRequest, dlOutcome, history>>
     ELSE /\ UNCHANGED swInitError
          /\ IF noSave
             THEN /\ dlPc' = "fetch"
                  /\ UNCHANGED <<downloadRequest, receiverState, dlOutcome, history>>
             ELSE PollOrComplete(prog)
  /\ UNCHANGED <<fileSize, noSave, strategy, prog, hangs, lastPoll, blobOutcome,
                 cancelCalled, cancelPosted, pagePc, pageOutcome>>
  /\ UNCHANGED <<serverVars, clientVars>>

\* lines 327-345: the fetch of a noSave download has been answered
downloadStream_afterFetch(status) ==
  /\ dlPc = "fetch"
  /\ IF status # "200" THEN ThrowInStream(status) ELSE PollOrComplete(prog)
  /\ UNCHANGED <<fileSize, noSave, strategy, prog, hangs, lastPoll, swInitError,
                 blobOutcome, cancelCalled, cancelPosted, pagePc, pageOutcome>>
  /\ UNCHANGED <<serverVars, clientVars>>

\* lines 347-381: the progress request has been answered
downloadStream_afterPoll(reply) ==
  /\ dlPc = "poll"
  /\ IF ~reply.ok
     THEN /\ lastPoll' = "failed"
          /\ downloadRequest' = "null"
          /\ receiverState' = "complete"
          /\ Settle("complete")
          /\ UNCHANGED <<prog, hangs>>
     ELSE /\ lastPoll' = "answered"
          /\ hangs' = IF reply.progress = prog THEN hangs + 1 ELSE 0
          /\ prog' = reply.progress
          /\ IF HangDetected(hangs')
             THEN ThrowInStream(HungDownload)
             ELSE /\ dlPc' = "delay"
                  /\ UNCHANGED <<downloadRequest, receiverState, dlOutcome, history>>
  /\ UNCHANGED <<fileSize, noSave, strategy, swInitError, blobOutcome,
                 cancelCalled, cancelPosted, pagePc, pageOutcome>>
  /\ UNCHANGED <<serverVars, clientVars>>

\* lines 381, 345: delay(1000) has elapsed
downloadStream_afterDelay ==
  /\ dlPc = "delay"
  /\ PollOrComplete(prog)
  /\ UNCHANGED <<fileSize, noSave, strategy, prog, hangs, lastPoll, swInitError,
                 blobOutcome, cancelCalled, cancelPosted, pagePc, pageOutcome>>
  /\ UNCHANGED <<serverVars, clientVars>>

\* the call of downloadBlob ends, and with it the call of download(options)
SettleBlob(result) ==
  /\ blobOutcome' = result
  /\ Settle(IF strategy = "stream" THEN FallbackOutcome(result) ELSE result)

\* lines 240-249: downloadFile has returned the request, or thrown
downloadBlob_afterDownloadFile(error) ==
  /\ dlPc = "downloadFile"
  /\ IF error = "none"
     THEN /\ downloadRequest' = "blob"
          /\ dlPc' = "blobResult"
          /\ UNCHANGED <<blobOutcome, dlOutcome, history>>
     ELSE /\ SettleBlob(error)
          /\ UNCHANGED downloadRequest
  /\ UNCHANGED <<fileSize, noSave, receiverState, strategy, prog, hangs, lastPoll,
                 swInitError, cancelCalled, cancelPosted, pagePc, pageOutcome>>
  /\ UNCHANGED <<serverVars, clientVars>>

\* lines 250-276: the ciphertext has arrived and was decrypted and saved, or
\* one of these has thrown
downloadBlob_afterResult(error) ==
  /\ dlPc = "blobResult"
  /\ downloadRequest' = "null"
  /\ IF error = "none"
     THEN receiverState' = "complete" /\ SettleBlob("complete")
     ELSE UNCHANGED receiverState /\ SettleBlob(error)
  /\ UNCHANGED <<fileSize, noSave, strategy, prog, hangs, lastPoll, swInitError,
                 cancelCalled, cancelPosted, pagePc, pageOutcome>>
  /\ UNCHANGED <<serverVars, clientVars>>

\* lines 88-92 and 287-295: FileReceiver.cancel() during a download
receiverCancel ==
  /\ dlPc \notin {"idle", "settled"}
  /\ ~cancelCalled
  /\ cancelCalled' = TRUE
  /\ cancelPosted' = (downloadRequest = "stream")
  /\ UNCHANGED <<fileSize, noSave, receiverState, downloadRequest, strategy, dlPc,
                 prog, hangs, lastPoll, swInitError, blobOutcome, dlOutcome,
                 pagePc, pageOutcome, history>>
  /\ UNCHANGED <<serverVars, clientVars>>

\* part_002 lines 338-360: what the handler does with an error of the download
DownloadErrorHandling(message) ==
  IF message = "0" THEN "cancelled"
  ELSE IF message = "404" THEN "/404"
  ELSE "/error"

\* part_002 lines 285-320: the page's download handler calls download
pageDownload(stream) ==
  /\ pagePc = "idle"
  /\ dlPc = "idle"
  /\ Download(stream, FALSE)
  /\ pagePc' = "first"
  /\ UNCHANGED <<fileSize, pageOutcome, history>>
  /\ UNCHANGED <<serverVars, clientVars>>

\* part_002 lines 320-337: the first download has ended
pageAfterFirst ==
  /\ pagePc = "first"
  /\ dlPc = "settled"
  /\ IF dlOutcome = "complete"
     THEN /\ pagePc' = "done"
          /\ pageOutcome' = "completed"
          /\ UNCHANGED <<noSave, receiverState, downloadRequest, strategy, dlPc,
                         prog, hangs, lastPoll, swInitError, blobOutcome,
                         dlOutcome, cancelCalled, cancelPosted>>
     ELSE /\ pagePc' = "second"
          /\ Download(FALSE, FALSE)
          /\ UNCHANGED pageOutcome
  /\ UNCHANGED <<fileSize, history>>
  /\ UNCHANGED <<serverVars, clientVars>>

\* part_002 lines 330-360: the second download has ended
pageAfterSecond ==
  /\ pagePc = "second"
  /\ dlPc = "settled"
  /\ pagePc' = "done"
  /\ IF dlOutcome = "complete"
     THEN pageOutcome' = "completed" /\ UNCHANGED receiverState
     ELSE /\ pageOutcome' = DownloadErrorHandling(dlOutcome)
          /\ receiverState' = IF dlOutcome = "0" THEN "initialized" ELSE receiverState
  /\ UNCHANGED <<fileSize, noSave, downloadRequest, strategy, dlPc, prog, hangs,
                 lastPoll, swInitError, blobOutcome, dlOutcome, cancelCalled,
                 cancelPosted, history>>
  /\ UNCHANGED <<serverVars, clientVars>>

\* lines 9-17, 94-105: the receiver as constructed, for a file of this size
ReceiverState(size) ==
  /\ fileSize = size
  /\ noSave = FALSE
  /\ receiverState = "initialized"
  /\ downloadRequest = "null"
  /\ strategy = "none"
  /\ dlPc = "idle"
  /\ prog = 0
  /\ hangs = 0
  /\ lastPoll = "none"
  /\ swInitError = "none"
  /\ blobOutcome = "pending"
  /\ dlOutcome = "pending"
  /\ cancelCalled = FALSE
  /\ cancelPosted = FALSE
  /\ pagePc = "idle"
  /\ pageOutcome = "none"
  /\ history = <<>>

\* no download under way
InitReceiverIdle == ReceiverState(0)

(***************************************************************************)
(* The server.                                                             *)
(***************************************************************************)
InitServerState(trace) ==
  /\ uploadSessions = <<>>
  /\ systemMetrics = [activeUploads |-> 0, totalUploads |-> 0]
  /\ storageFiles = <<>>
  /\ finalizeReqs = <<>>
  /\ lastRequest = NoRequest
  /\ lastResponse = NoResponse
  /\ idsIssued = 0
  /\ now = 0
  /\ traceRequests = trace
  /\ cleanupReqs = <<>>
  /\ storageDeletes = {}
  /\ receiving = [k \in Slots |-> NoReceiving]

\* the whole server, requests not recorded
InitServer == InitServerState(FALSE) /\ InitClientIdle /\ InitReceiverIdle

\* init and chunk requests only, each recorded with its response
InitChunks == InitServerState(TRUE) /\ InitClientIdle /\ InitReceiverIdle

NextChunks ==
  \/ \E size \in 0..MaxInitSize, authorization \in BOOLEAN,
        chunkSize \in 1..MaxInitChunkSize, enableVerification \in BOOLEAN :
       initChunkedUpload(size, authorization, chunkSize, enableVerification)
  \/ \E uploadId \in UploadIds \cup {NoUploadId}, chunkIndex \in ParsedIndexes,
        rawBody \in Bodies, chunkHash \in DeclaredHashes,
        hashAlgorithm \in HashAlgorithms :
       putChunk(uploadId, chunkIndex, rawBody, chunkHash, hashAlgorithm)

SpecChunks == InitChunks /\ [][NextChunks]_vars

NextServer ==
  \/ \E size \in 0..MaxInitSize, authorization \in BOOLEAN,
        chunkSize \in 1..MaxInitChunkSize, enableVerification \in BOOLEAN :
       initChunkedUpload(size, authorization, chunkSize, enableVerification)
  \/ \E uploadId \in UploadIds \cup {NoUploadId}, chunkIndex \in ParsedIndexes,
        rawBody \in Bodies, chunkHash \in DeclaredHashes,
        hashAlgorithm \in HashAlgorithms :
       putChunk(uploadId, chunkIndex, rawBody, chunkHash, hashAlgorithm)
  \/ \E uploadId \in UploadIds, totalChunks \in FinalizeTotals :
       finalizeChunkedUpload(uploadId, totalChunks)
  \/ \E r \in 1..MaxFinalizeReqs : finalizeStorageSetResolved(r)
  \/ \E r \in 1..MaxFinalizeReqs : finalizeStorageSetRejected(r)

SpecServer == InitServer /\ [][NextServer]_vars

\* the bodies of the chunk requests of SpecSessions: zero bytes only
SessionBodies == SeqsUpTo({0}, MaxBodyLen)

\* the sessions' whole life: every handler, the reaper and a clock that
\* jumps past the timeout; chunk requests carry a well-formed index and no
\* digest, sessions are created without verification
InitSessions == InitServerState(TRUE) /\ InitClientIdle /\ InitReceiverIdle

NextSessions ==
  \/ \E size \in 0..MaxInitSize, authorization \in BOOLEAN,
        chunkSize \in 1..MaxInitChunkSize :
       initChunkedUpload(size, authorization, chunkSize, FALSE)
  \/ \E uploadId \in UploadIds \cup {NoUploadId}, chunkIndex \in 0..MaxIndex,
        rawBody \in SessionBodies :
       putChunk(uploadId, chunkIndex, rawBody, NoHash, "SHA-256")
  \/ \E uploadId \in UploadIds, totalChunks \in FinalizeTotals :
       finalizeChunkedUpload(uploadId, totalChunks)
  \/ \E r \in 1..MaxFinalizeReqs : finalizeStorageSetResolved(r)
  \/ \E r \in 1..MaxFinalizeReqs : finalizeStorageSetRejected(r)
  \/ \E uploadId \in UploadIds : getStatus(uploadId)
  \/ \E uploadId \in UploadIds : cleanupUpload(uploadId)
  \/ \E r \in 1..MaxCleanupReqs : cleanupStorageDeleteSettled(r)
  \/ sessionReaper
  \/ tick(SessionTimeout + MaxDrift)

SpecSessions == InitSessions /\ [][NextSessions]_vars

\* sessions that are written, queried and left idle while the clock runs in
\* fine steps; setInterval keeps calling the reaper
NextSweep ==
  \/ \E size \in 0..MaxInitSize, authorization \in BOOLEAN,
        chunkSize \in 1..MaxInitChunkSize :
       initChunkedUpload(size, authorization, chunkSize, FALSE)
  \/ \E uploadId \in UploadIds, chunkIndex \in 0..MaxIndex, rawBody \in Bodies :
       putChunk(uploadId, chunkIndex, rawBody, NoHash, "SHA-256")
  \/ \E uploadId \in UploadIds : getStatus(uploadId)
  \/ sessionReaper
  \/ \E t \in Clock : tick(t)

SpecSweep == InitSessions /\ [][NextSweep]_vars /\ WF_vars(sessionReaper)

\* chunk requests of one session whose bodies arrive at the same time, piece
\* by piece
NextRoute ==
  \/ \E size \in 1..MaxInitSize, chunkSize \in 1..MaxInitChunkSize :
       initChunkedUpload(size, TRUE, chunkSize, FALSE)
  \/ \E k \in Slots, uploadId \in UploadIds, chunkIndex \in 0..MaxIndex,
        sent \in Bodies :
       putChunk_arrives(k, uploadId, chunkIndex, sent, NoHash, "SHA-256")
  \/ \E k \in Slots, n \in 1..MaxBodyLen : putChunk_data(k, n)
  \/ \E k \in Slots : putChunk_end(k)
  \/ \E k \in Slots : putChunk_error(k)

SpecRoute == InitChunks /\ [][NextRoute]_vars

(***************************************************************************)
(* One call of uploadChunked.                                              *)
(***************************************************************************)
InitClient ==
  /\ InitServerState(FALSE)
  /\ InitReceiverIdle
  /\ \E chunkSize \in 0..MaxChunkSize, maxParallelChunks \in 0..MaxParallelChunks,
        maxRetries \in 0..MaxRetries, retryDelay \in 0..MaxRetryDelay,
        n \in 0..MaxSourceLen :
       \E buffers \in Splits(SourceBytes(n)), estimatedSize \in EncryptedSizes(n) :
         ClientState(UploaderConfig(chunkSize, maxParallelChunks, maxRetries,
                                    retryDelay, estimatedSize),
                     buffers, "init")

NextClient ==
  \/ \E ok \in BOOLEAN : uploadChunked_afterInit(ok)
  \/ uploadChunked_afterRead
  \/ uploadChunked_afterOldest
  \/ uploadChunked_afterAll
  \/ \E ok \in BOOLEAN : uploadChunked_afterFinalize(ok)
  \/ \E c \in 0..MaxSourceLen : uploadChunk_hashed(c)
  \/ \E c \in 0..MaxSourceLen : uploadChunk_fetchOk(c)
  \/ \E c \in 0..MaxSourceLen : uploadChunk_fetchFails(c, NetworkError)
  \/ \E c \in 0..MaxSourceLen : uploadChunk_backoffElapsed(c)
  \/ cancel

SpecClient == InitClient /\ [][NextClient]_vars

\* every source read, network request, digest and timer eventually returns,
\* and every continuation that is ready is run
UploadReturns ==
  /\ WF_vars(\E ok \in BOOLEAN : uploadChunked_afterInit(ok))
  /\ WF_vars(uploadChunked_afterRead)
  /\ WF_vars(uploadChunked_afterOldest)
  /\ WF_vars(uploadChunked_afterAll)
  /\ WF_vars(\E ok \in BOOLEAN : uploadChunked_afterFinalize(ok))
  /\ \A c \in 0..MaxSourceLen :
       /\ WF_vars(uploadChunk_hashed(c))
       /\ WF_vars(uploadChunk_fetchOk(c) \/ uploadChunk_fetchFails(c, NetworkError))
       /\ WF_vars(uploadChunk_backoffElapsed(c))

\* the calls made without originalFileSize and with the default retryDelay
InitUpload ==
  /\ InitClient
  /\ config.estimatedSize = 0
  /\ config.retryDelay = DefaultRetryDelay

SpecUpload == InitUpload /\ [][NextClient]_vars /\ UploadReturns

\* one call of uploadChunked whose fetches fail in each way: the network
\* fails, or the server answers 404 or 500
NextRetry ==
  \/ \E ok \in BOOLEAN : uploadChunked_afterInit(ok)
  \/ uploadChunked_afterRead
  \/ uploadChunked_afterOldest
  \/ uploadChunked_afterAll
  \/ \E ok \in BOOLEAN : uploadChunked_afterFinalize(ok)
  \/ \E c \in 0..MaxSourceLen : uploadChunk_hashed(c)
  \/ \E c \in 0..MaxSourceLen : uploadChunk_fetchOk(c)
  \/ \E c \in 0..MaxSourceLen, failure \in {NetworkError, "404", "500"} :
       uploadChunk_fetchFails(c, failure)
  \/ \E c \in 0..MaxSourceLen : uploadChunk_backoffElapsed(c)
  \/ cancel

SpecRetry == InitUpload /\ [][NextRetry]_vars

(***************************************************************************)
(* One call of uploadChunked against the server: each request of the       *)
(* uploader is handled by the server's handler, and the uploader gets the  *)
(* handler's answer, or, for init and chunk requests, a network failure.   *)
(***************************************************************************)
\* the uploader's upload id: the id of the first session the server creates
TransferId == 1

\* the calls made with an originalFileSize, so that the size declared to the
\* server is not 0, and with the default retryDelay
InitTransfer ==
  /\ InitClient
  /\ config.estimatedSize > 0
  /\ config.retryDelay = DefaultRetryDelay

\* fileSender.js lines 199-220: the init request reaches initChunkedUpload;
\* enableIntegrityVerification is on, as the constructor leaves it (line 13)
transferInit ==
  /\ pc = "init"
  /\ idsIssued = 0
  /\ initChunkedUpload(config.estimatedSize, TRUE, config.chunkSize, TRUE)

\* lines 222-234: the init request is answered, or fails
transferAfterInit(ok) ==
  /\ ok => idsIssued = TransferId
  /\ uploadChunked_afterInit(ok)

\* lines 240-265: the PUT of chunk c reaches the route, with the digest of
\* the chunk in X-Chunk-Hash
transferChunk(c) ==
  /\ c \in DOMAIN tasks
  /\ tasks[c].status = "sending"
  /\ putChunk(TransferId, c, tasks[c].chunkData, Digest(tasks[c].chunkData), "SHA-256")

\* lines 267-284: the PUT of chunk c is answered 200
transferChunkOk(c) ==
  /\ TransferId \in DOMAIN uploadSessions
  /\ c \in DOMAIN uploadSessions[TransferId].chunks
  /\ uploadChunk_fetchOk(c)

\* lines 316-336: the finalize request reaches finalizeChunkedUpload
transferFinalize ==
  /\ pc = "finalize"
  /\ finalizeReqs = <<>>
  /\ finalizeChunkedUpload(TransferId, finalizeCalls[Len(finalizeCalls)].totalChunks)

\* lines 338-344, 164-181: the finalize request is answered; response.ok is
\* whether the server answered 200
transferAfterFinalize ==
  /\ finalizeReqs # <<>>
  /\ finalizeReqs[1].pc = "done"
  /\ uploadChunked_afterFinalize(finalizeReqs[1].status = 200)

NextTransfer ==
  \/ transferInit
  \/ \E ok \in BOOLEAN : transferAfterInit(ok)
  \/ uploadChunked_afterRead
  \/ uploadChunked_afterOldest
  \/ uploadChunked_afterAll
  \/ \E c \in 0..MaxSourceLen : uploadChunk_hashed(c)
  \/ \E c \in 0..MaxSourceLen : transferChunk(c)
  \/ \E c \in 0..MaxSourceLen : transferChunkOk(c)
  \/ \E c \in 0..MaxSourceLen : uploadChunk_fetchFails(c, NetworkError)
  \/ \E c \in 0..MaxSourceLen : uploadChunk_backoffElapsed(c)
  \/ cancel
  \/ transferFinalize
  \/ \E r \in 1..MaxFinalizeReqs : finalizeStorageSetResolved(r)
  \/ \E r \in 1..MaxFinalizeReqs : finalizeStorageSetRejected(r)
  \/ transferAfterFinalize

SpecTransfer == InitTransfer /\ [][NextTransfer]_vars

(***************************************************************************)
(* One download: by the page's handler, or by another caller of            *)
(* download(options).                                                      *)
(***************************************************************************)
InitDownload ==
  /\ InitServerState(FALSE)
  /\ InitClientIdle
  /\ \E size \in 0..MaxFileSize : ReceiverState(size)

NextDownload ==
  \/ \E stream \in BOOLEAN, ns \in BOOLEAN : download(stream, ns)
  \/ \E stream \in BOOLEAN : pageDownload(stream)
  \/ \E reply \in InitReplies : downloadStream_afterInit(reply)
  \/ \E status \in FetchStatuses : downloadStream_afterFetch(status)
  \/ \E reply \in ProgressReplies : downloadStream_afterPoll(reply)
  \/ downloadStream_afterDelay
  \/ \E error \in BlobErrors \cup {"none"} : downloadBlob_afterDownloadFile(error)
  \/ \E error \in BlobErrors \cup {"none"} : downloadBlob_afterResult(error)
  \/ receiverCancel
  \/ pageAfterFirst
  \/ pageAfterSecond

SpecDownload == InitDownload /\ [][NextDownload]_vars

(***************************************************************************)
(* Properties of the server.                                               *)
(***************************************************************************)
\* C1: a finalize request succeeds only if the chunk indices it found stored
\* were exactly 0..totalChunks-1; in every other case it has answered with
\* an error without calling storage.set, and nothing is in the store that no
\* successful finalize put there.
C1_FinalizeAllOrNothing ==
  /\ \A r \in DOMAIN finalizeReqs :
       LET req == finalizeReqs[r]
       IN  /\ req.calledSet => req.keysExact
           /\ req.status = 200 => req.keysExact
           /\ ~req.keysExact => /\ req.pc = "done"
                                /\ req.status \in {400, 404, 500}
                                /\ ~req.calledSet
  /\ \A f \in DOMAIN storageFiles :
       \E r \in DOMAIN finalizeReqs :
         /\ finalizeReqs[r].fileId = f
         /\ finalizeReqs[r].status = 200

\* a finalize whose declared count matched while an index was missing
C1_Witness ==
  \E r \in DOMAIN finalizeReqs :
    /\ finalizeReqs[r].code = "FINALIZE_ERROR"
    /\ finalizeReqs[r].totalChunks = 2
    /\ ~finalizeReqs[r].keysExact
    /\ ~finalizeReqs[r].calledSet

\* C2: a finalize request that arrives after a finalize of the same upload id
\* has succeeded is answered 404 SESSION_NOT_FOUND and does not call
\* storage.set.
C2_SecondFinalizeNotFound ==
  \A r \in DOMAIN finalizeReqs :
    finalizeReqs[r].afterSuccess =>
      /\ finalizeReqs[r].pc = "done"
      /\ finalizeReqs[r].status = 404
      /\ finalizeReqs[r].code = "SESSION_NOT_FOUND"
      /\ ~finalizeReqs[r].calledSet

C2_Witness ==
  \E r \in DOMAIN finalizeReqs :
    /\ finalizeReqs[r].afterSuccess
    /\ finalizeReqs[r].status = 404

\* C3: for every interleaving of finalize requests on one upload id,
\* storage.set is invoked at most once for the session and at most one
\* request returns success.
C3_FinalizeAtomic ==
  \A u \in UploadIds :
    /\ Cardinality({r \in DOMAIN finalizeReqs :
                      finalizeReqs[r].uploadId = u /\ finalizeReqs[r].calledSet}) <= 1
    /\ Cardinality({r \in DOMAIN finalizeReqs :
                      finalizeReqs[r].uploadId = u /\ finalizeReqs[r].status = 200}) <= 1

(***************************************************************************)
(* Properties of the chunk handler, on the recorded requests.              *)
(***************************************************************************)
\* the recorded request is a chunk request that reached the digest check of
\* a session with verification enabled
ChunkRequestVerified(request) ==
  /\ request.op = "chunk"
  /\ request.uploadId \in DOMAIN uploadSessions
  /\ uploadSessions[request.uploadId].enableVerification
  /\ Len(request.rawBody) > 0
  /\ request.chunkHash # NoHash
  /\ request.hashAlgorithm = "SHA-256"

\* C4: with verification enabled, a chunk request whose declared digest
\* differs from the digest recomputed over its bytes is answered 400
\* INTEGRITY_ERROR and leaves the session (its chunk map and receivedChunks)
\* as it was; a request for the same index whose digest matches is stored
\* and counted.
C4_DigestMismatchRejected ==
  [][LET request == lastRequest'
         u == request.uploadId
         i == request.chunkIndex
     IN  ChunkRequestVerified(request) =>
           IF request.chunkHash # Digest(request.rawBody)
           THEN /\ lastResponse'.status = 400
                /\ lastResponse'.code = "INTEGRITY_ERROR"
                /\ uploadSessions' = uploadSessions
           ELSE /\ lastResponse'.status = 200
                /\ i \in DOMAIN uploadSessions'[u].chunks
                /\ uploadSessions'[u].chunks[i] = request.rawBody
                /\ uploadSessions'[u].receivedChunks =
                     Cardinality(DOMAIN uploadSessions[u].chunks \cup {i})
                /\ lastResponse'.receivedChunks = uploadSessions'[u].receivedChunks
    ]_vars

\* chunk 1 was refused for its digest while one chunk is stored
C4_Witness ==
  /\ ChunkRequestVerified(lastRequest)
  /\ lastRequest.chunkHash # Digest(lastRequest.rawBody)
  /\ lastResponse.code = "INTEGRITY_ERROR"
  /\ lastRequest.chunkIndex = 1
  /\ DOMAIN uploadSessions[lastRequest.uploadId].chunks = {0}
  /\ uploadSessions[lastRequest.uploadId].receivedChunks = 1

\* C10: accepting a chunk for an index that is already stored, with other
\* bytes, replaces the stored bytes of that index, keeps every other index
\* and leaves receivedChunks as it was.
C10_OverwriteKeepsCount ==
  [][LET request == lastRequest'
         u == request.uploadId
         i == request.chunkIndex
     IN  ( /\ request.op = "chunk"
           /\ lastResponse'.status = 200
           /\ i \in DOMAIN uploadSessions[u].chunks
           /\ uploadSessions[u].chunks[i] # request.rawBody )
         => /\ uploadSessions'[u].chunks =
                 [uploadSessions[u].chunks EXCEPT ![i] = request.rawBody]
            /\ uploadSessions'[u].receivedChunks = uploadSessions[u].receivedChunks
            /\ lastResponse'.receivedChunks = uploadSessions[u].receivedChunks
    ]_vars

\* a stored index was accepted again, beside another stored index
C10_Witness ==
  /\ lastRequest.op = "chunk"
  /\ lastResponse.status = 200
  /\ lastResponse.wasAlreadyStored
  /\ lastResponse.receivedChunks = 2
  /\ uploadSessions[lastRequest.uploadId].chunks[lastRequest.chunkIndex] = lastRequest.rawBody

(***************************************************************************)
(* Properties of ChunkedUploader.                                          *)
(***************************************************************************)
\* the chunks dispatched so far, by ascending chunk index
RECURSIVE DispatchedUpTo(_)
DispatchedUpTo(n) ==
  IF n = 0 THEN <<>>
  ELSE DispatchedUpTo(n - 1) \o tasks[n - 1].chunkData

DispatchedCount == Cardinality(DOMAIN tasks)

\* C5: at every moment the chunk uploads started and not yet settled
\* (hashing, sending or waiting in a retry backoff) are at most
\* maxParallelChunks.
C5_BoundedInFlight == Cardinality(InFlight) <= config.maxParallelChunks

\* the window is full and one of its uploads waits in a backoff
C5_Witness ==
  /\ Cardinality(InFlight) = config.maxParallelChunks
  /\ config.maxParallelChunks >= 2
  /\ \E c \in InFlight : tasks[c].status = "backoff"
  /\ pc = "awaitOldest"

\* C6: a chunk whose every fetch fails is fetched exactly maxRetries+1 times
\* and then rejected: no task makes more fetches, none is rejected after
\* fewer, and none goes on after the last failure.
C6_ExactlyMaxRetriesPlusOne ==
  \A c \in DOMAIN tasks :
    /\ tasks[c].attempts <= config.maxRetries + 1
    /\ tasks[c].status = "rejected" =>
         /\ tasks[c].attempts = config.maxRetries + 1
         /\ tasks[c].retries = tasks[c].attempts
    /\ tasks[c].retries = config.maxRetries + 1 => tasks[c].status = "rejected"

C6_Witness ==
  \E c \in DOMAIN tasks :
    /\ tasks[c].status = "rejected"
    /\ tasks[c].attempts = 2
    /\ config.maxRetries = 1

\* C7 as stated: the delay waited before attempt k of a chunk is
\* retryDelay * 2^(k-1), attempts counted from 1 (a chunk makes up to
\* maxRetries+1 of them); the delay before attempt k >= 2 is the (k-1)-th
\* the task has waited.
C7_DelayBeforeAttemptAsStated ==
  \A c \in DOMAIN tasks :
    \A k \in 2..(Len(tasks[c].delays) + 1) :
      tasks[c].delays[k - 1] = config.retryDelay * 2 ^ (k - 1)

\* C7 amended: the delay waited before attempt k >= 2 of a chunk, that is
\* before its (k-1)-th retry, is retryDelay * 2^(k-2); attempt 1 is sent
\* without a delay.
C7_DelayBeforeRetry ==
  \A c \in DOMAIN tasks :
    /\ Len(tasks[c].delays) =
         (IF tasks[c].status = "backoff" THEN tasks[c].attempts
          ELSE IF tasks[c].attempts = 0 THEN 0
          ELSE tasks[c].attempts - 1)
    /\ \A k \in 2..(Len(tasks[c].delays) + 1) :
         tasks[c].delays[k - 1] = config.retryDelay * 2 ^ (k - 2)

\* a chunk has waited three backoffs
C7_Witness ==
  \E c \in DOMAIN tasks :
    /\ Len(tasks[c].delays) = 3
    /\ tasks[c].attempts = 4

\* C8: the chunks dispatched, concatenated by ascending chunk index, are
\* the bytes read from the source that are not waiting in chunkBuffer, in
\* the order of the source; once the source is exhausted they are the whole
\* source.
C8_ChunksReproduceSource ==
  /\ DOMAIN tasks = 0..(DispatchedCount - 1)
  /\ DispatchedUpTo(DispatchedCount) \o Combine(chunkBuffer)
       = Combine(SubSeq(source, 1, readPos))
  /\ done => DispatchedUpTo(DispatchedCount) = Combine(source)

\* a source of several buffers is exhausted; a chunk was made of two buffers
C8_Witness ==
  /\ done
  /\ Len(source) = 3
  /\ DispatchedCount = 2
  /\ Len(tasks[0].chunkData) = 2

\* C9: every dispatched chunk but the last has exactly chunkSize bytes, the
\* last has 1..chunkSize bytes, and a source of L bytes gives
\* ceil(L / chunkSize) chunks.
C9_FixedSizeChunks ==
  /\ \A c \in DOMAIN tasks :
       /\ Len(tasks[c].chunkData) >= 1
       /\ Len(tasks[c].chunkData) <= config.chunkSize
       /\ c < DispatchedCount - 1 => Len(tasks[c].chunkData) = config.chunkSize
  /\ done => DispatchedCount = Ceil(Len(Combine(source)), config.chunkSize)

(***************************************************************************)
(* Properties of the sessions over time.                                   *)
(***************************************************************************)
\* the step is uploadChunk accepting bytes b for index i of session u, which
\* already stores these bytes for this index
ChunkResent(u, i, b) ==
  /\ u \in DOMAIN uploadSessions
  /\ i \in DOMAIN uploadSessions[u].chunks
  /\ uploadSessions[u].chunks[i] = b
  /\ uploadChunk(u, i, b, NoHash, "SHA-256")
  /\ lastResponse'.status = 200

\* C11 as stated: re-accepting an index with the bytes already stored leaves
\* the chunk map and every field a status query returns (lastActivity
\* included) as they were.
C11_ResendIsNoOp ==
  [][\A u \in UploadIds, i \in 0..MaxIndex, b \in Bodies :
       ChunkResent(u, i, b) =>
         /\ uploadSessions'[u].chunks = uploadSessions[u].chunks
         /\ StatusSnapshot(uploadSessions'[u]) = StatusSnapshot(uploadSessions[u])
    ]_vars

\* C11 amended: re-accepting an index with the bytes already stored leaves
\* the chunk map and the status fields receivedChunks, totalChunks, progress,
\* isComplete and createdAt as they were, and sets lastActivity to the time
\* of the call.
C11_ResendKeepsAllButLastActivity ==
  [][\A u \in UploadIds, i \in 0..MaxIndex, b \in Bodies :
       ChunkResent(u, i, b) =>
         /\ uploadSessions'[u].chunks = uploadSessions[u].chunks
         /\ StatusSnapshot(uploadSessions'[u]) =
              [StatusSnapshot(uploadSessions[u]) EXCEPT !.lastActivity = now]
         /\ uploadSessions'[u].lastActivity = now
    ]_vars

\* an index was accepted again with the same bytes, later than it was stored
C11_Witness ==
  /\ lastRequest.op = "chunk"
  /\ lastResponse.status = 200
  /\ lastResponse.wasAlreadyStored
  /\ uploadSessions[lastRequest.uploadId].lastActivity = now
  /\ now > uploadSessions[lastRequest.uploadId].createdAt
  /\ lastResponse.receivedChunks = 1
  /\ uploadSessions[lastRequest.uploadId].totalChunks = 2

(***************************************************************************)
(* Properties of reassembly.                                               *)
(***************************************************************************)
\* the bytes of a chunk map, concatenated by ascending key
RECURSIVE AscendingConcat(_)
AscendingConcat(chunks) ==
  IF DOMAIN chunks = {} THEN <<>>
  ELSE LET top == CHOOSE k \in DOMAIN chunks : \A j \in DOMAIN chunks : j <= k
       IN  AscendingConcat([k \in DOMAIN chunks \ {top} |-> chunks[k]]) \o chunks[top]

\* the sum of the sizes of the chunks of a chunk map
RECURSIVE SumOfSizes(_)
SumOfSizes(chunks) ==
  IF DOMAIN chunks = {} THEN 0
  ELSE LET k == CHOOSE j \in DOMAIN chunks : TRUE
       IN  SumOfSizes([j \in DOMAIN chunks \ {k} |-> chunks[j]]) + Len(chunks[k])

\* C12: whatever the order in which chunks arrived and were re-sent, each
\* accepted chunk replaces the bytes of its index only; a finalize that calls
\* storage.set hands it the concatenation by ascending index of the bytes
\* the chunk map then holds for 0..totalChunks-1, whose size is the sum of
\* the chunk sizes, and that artifact is what the store holds when the call
\* resolves. A session of 12 MB in 5 MB chunks expects 3 chunks.
C12_ReassemblyByIndex ==
  /\ NewSession(1, 12 * 1048576, 5 * 1048576, FALSE).totalChunks = 3
  /\ [][/\ ( /\ finalizeReqs' = finalizeReqs
             /\ DOMAIN uploadSessions' = DOMAIN uploadSessions
             /\ uploadSessions' # uploadSessions )
           => \A u \in DOMAIN uploadSessions :
                uploadSessions'[u] # uploadSessions[u] =>
                  \E i \in ParsedIndexes, b \in Bodies :
                    uploadSessions'[u].chunks = MapSet(uploadSessions[u].chunks, i, b)
        /\ Len(finalizeReqs') > Len(finalizeReqs)
           => LET req == finalizeReqs'[Len(finalizeReqs')]
              IN  req.calledSet =>
                    LET chunks == uploadSessions[req.uploadId].chunks
                    IN  /\ DOMAIN chunks = 0..(req.totalChunks - 1)
                        /\ req.completeFile = AscendingConcat(chunks)
                        /\ Len(req.completeFile) = SumOfSizes(chunks)
        /\ \A r \in DOMAIN finalizeReqs :
             (r \in DOMAIN finalizeReqs' /\ finalizeReqs[r].pc = "awaitSet"
              /\ finalizeReqs'[r].status = 200)
             => /\ finalizeReqs'[r].fileId \in DOMAIN storageFiles'
                /\ storageFiles'[finalizeReqs'[r].fileId] = finalizeReqs[r].completeFile
       ]_vars

\* two chunks of different bytes were reassembled and stored
C12_Witness ==
  \E r \in DOMAIN finalizeReqs :
    /\ finalizeReqs[r].status = 200
    /\ finalizeReqs[r].totalChunks = 2
    /\ finalizeReqs[r].completeFile = <<0, 1>>
    /\ finalizeReqs[r].fileId \in DOMAIN storageFiles
    /\ storageFiles[finalizeReqs[r].fileId] = <<0, 1>>

\* C13: the number of distinct chunk indices a session stores never exceeds
\* the total chunk count the session declared at init.
C13_ReceivedWithinTotal ==
  \A u \in DOMAIN uploadSessions :
    /\ uploadSessions[u].receivedChunks <= uploadSessions[u].totalChunks
    /\ Cardinality(DOMAIN uploadSessions[u].chunks) <= uploadSessions[u].totalChunks

\* C14: every key of a session's chunk map is a non-negative integer.
C14_IndicesNonNegativeIntegers ==
  \A u \in DOMAIN uploadSessions :
    \A k \in DOMAIN uploadSessions[u].chunks : k \in Nat

(***************************************************************************)
(* Properties of the sessions' life.                                       *)
(***************************************************************************)
\* the step is uploadChunk handling the recorded request
ChunkStep ==
  /\ lastRequest'.op = "chunk"
  /\ uploadChunk(lastRequest'.uploadId, lastRequest'.chunkIndex,
                 lastRequest'.rawBody, lastRequest'.chunkHash,
                 lastRequest'.hashAlgorithm)

\* the step is the status route handling the recorded request
StatusStep ==
  /\ lastRequest'.op = "status"
  /\ getStatus(lastRequest'.uploadId)

\* the step is a finalize request arriving
FinalizeStep == Len(finalizeReqs') > Len(finalizeReqs)

\* the finalize request that arrives in a FinalizeStep
ArrivedFinalize == finalizeReqs'[Len(finalizeReqs')]

\* the registry issued this upload id and holds no session for it any more
Removed(u) == u \in 1..idsIssued /\ u \notin DOMAIN uploadSessions

\* C15: every accepted chunk and every finalize call on a session sets the
\* session's lastActivity to the time of the call.
C15_ActivityRefreshed ==
  [][/\ (ChunkStep /\ lastResponse'.status = 200)
          => uploadSessions'[lastRequest'.uploadId].lastActivity = now
     /\ (FinalizeStep /\ ArrivedFinalize.uploadId \in DOMAIN uploadSessions)
          => /\ ArrivedFinalize.uploadId \in DOMAIN uploadSessions'
             /\ uploadSessions'[ArrivedFinalize.uploadId].lastActivity = now
    ]_vars

\* C16: under a reaper that keeps firing, a session whose lastActivity is
\* more than the timeout ago does not stay as it is: it is removed, unless a
\* chunk refreshes it first; a removed session stays removed and every
\* status query for it is answered 404 SESSION_NOT_FOUND.
C16_IdleSessionReaped ==
  /\ \A u \in UploadIds, t \in Clock :
       ( /\ u \in DOMAIN uploadSessions
         /\ uploadSessions[u].lastActivity = t
         /\ now - t > SessionTimeout )
       ~> ( \/ u \notin DOMAIN uploadSessions
            \/ uploadSessions[u].lastActivity # t )
  /\ [][/\ \A u \in UploadIds : Removed(u) => u \notin DOMAIN uploadSessions'
        /\ (StatusStep /\ Removed(lastRequest'.uploadId))
             => /\ lastResponse'.status = 404
                /\ lastResponse'.code = "SESSION_NOT_FOUND"
       ]_vars

\* a session was reaped and a status query for it answered 404
C16_Witness ==
  /\ lastRequest.op = "status"
  /\ Removed(lastRequest.uploadId)
  /\ lastResponse.status = 404
  /\ lastRequest.uploadId \in storageDeletes
  /\ now > SessionTimeout

\* C17: once a session has left the registry, every later status request,
\* chunk request and finalize request for its upload id is answered 404
\* SESSION_NOT_FOUND and changes neither the registry nor the store, and the
\* session never comes back.
C17_RemovedIsNotFound ==
  [][/\ \A u \in UploadIds : Removed(u) => u \notin DOMAIN uploadSessions'
     /\ (StatusStep /\ Removed(lastRequest'.uploadId))
          => /\ lastResponse'.status = 404
             /\ lastResponse'.code = "SESSION_NOT_FOUND"
             /\ UNCHANGED <<uploadSessions, storageFiles>>
     /\ (ChunkStep /\ Removed(lastRequest'.uploadId))
          => /\ lastResponse'.status = 404
             /\ lastResponse'.code = "SESSION_NOT_FOUND"
             /\ UNCHANGED <<uploadSessions, storageFiles>>
     /\ (FinalizeStep /\ Removed(ArrivedFinalize.uploadId))
          => /\ ArrivedFinalize.pc = "done"
             /\ ArrivedFinalize.status = 404
             /\ ArrivedFinalize.code = "SESSION_NOT_FOUND"
             /\ ~ArrivedFinalize.calledSet
             /\ UNCHANGED <<uploadSessions, storageFiles>>
    ]_vars

\* a session removed by a cleanup: a later finalize and a later chunk
\* request were answered 404
C17_Witness ==
  /\ lastRequest.op = "chunk"
  /\ Removed(lastRequest.uploadId)
  /\ lastResponse.status = 404
  /\ \E r \in DOMAIN cleanupReqs :
       /\ cleanupReqs[r].uploadId = lastRequest.uploadId
       /\ cleanupReqs[r].pc = "done"
       /\ cleanupReqs[r].fileId # NoUploadId
  /\ \E r \in DOMAIN finalizeReqs :
       /\ finalizeReqs[r].uploadId = lastRequest.uploadId
       /\ finalizeReqs[r].status = 404

(***************************************************************************)
(* Properties of initChunkedUpload.                                        *)
(***************************************************************************)
\* the step is initChunkedUpload handling the recorded request
InitStep ==
  /\ lastRequest'.op = "init"
  /\ \E chunkSize \in 1..MaxInitChunkSize, enableVerification \in BOOLEAN :
       initChunkedUpload(lastRequest'.size, lastRequest'.authorization,
                         chunkSize, enableVerification)

\* C18: an init request whose fileMetadata is missing, or whose size is 0 or
\* absent, is answered 400 INVALID_FILE_METADATA, adds no session and leaves
\* activeUploads and totalUploads as they were.
C18_InvalidMetadataRejected ==
  [][(InitStep /\ lastRequest'.size = 0)
       => /\ lastResponse'.status = 400
          /\ lastResponse'.code = "INVALID_FILE_METADATA"
          /\ uploadSessions' = uploadSessions
          /\ systemMetrics' = systemMetrics
          /\ idsIssued' = idsIssued
    ]_vars

\* an authorized init without a size was refused beside an open session
C18_Witness ==
  /\ lastRequest.op = "init"
  /\ lastRequest.size = 0
  /\ lastRequest.authorization
  /\ lastResponse.status = 400
  /\ lastResponse.code = "INVALID_FILE_METADATA"
  /\ DOMAIN uploadSessions = {1}
  /\ systemMetrics = [activeUploads |-> 1, totalUploads |-> 1]

(***************************************************************************)
(* Properties of cancellation.                                             *)
(***************************************************************************)
\* the step calls reader.read(): it enters the inner loop, or goes round it
ReadIssued ==
  /\ pc' = "read"
  /\ pc # "read" \/ readPos' # readPos

\* the step calls uploadChunk for a new chunk
ChunkDispatched == DOMAIN tasks' # DOMAIN tasks

\* C19: after cancel() has been called, uploadChunked calls reader.read() no
\* more and dispatches no new chunk.
C19_NoReadNoDispatchAfterCancel ==
  [][cancelled => ~ReadIssued /\ ~ChunkDispatched]_vars

\* C20: an upload that ends because it was cancelled reaches the page as the
\* cancel sentinel Error(0), which the page handles as "cancelled, do
\* nothing", never as a failure.
C20_CancelIsSentinel ==
  (pc = "rejected" /\ outcome = "Upload cancelled")
    => /\ FileSenderUploadError(outcome) = CancelSentinel
       /\ UploadErrorHandling(FileSenderUploadError(outcome)) = "cancelled: do nothing"

(***************************************************************************)
(* Properties of the uploader: how a transfer ends.                        *)
(***************************************************************************)
\* uploadChunked has returned or thrown
Terminated == pc \in {"resolved", "rejected"}

\* what the call resolved to
TransferResult ==
  IF pc = "resolved" THEN "succeeded"
  ELSE IF pc = "rejected"
  THEN IF outcome = "Upload cancelled" THEN "cancelled" ELSE "failed"
  ELSE "pending"

\* C21: when every source read and every network request eventually returns,
\* each call of uploadChunked terminates, and what it resolved to is one of
\* cancelled, failed and succeeded and never changes afterwards.
C21_TerminatesWithOneResult ==
  /\ <>Terminated
  /\ [](Terminated => TransferResult \in {"cancelled", "failed", "succeeded"})
  /\ [][Terminated => (TransferResult' = TransferResult)]_vars

C21_Witness ==
  /\ Terminated
  /\ TransferResult = "failed"
  /\ \E c \in DOMAIN tasks : tasks[c].status = "rejected" /\ tasks[c].retries > 1
  /\ \E c \in DOMAIN tasks : tasks[c].status = "fulfilled"

\* a call of uploadChunk has thrown: its chunk has exhausted its retries
ChunkExhausted == \E c \in DOMAIN tasks : tasks[c].status = "rejected"

FirstIndices(n) == [i \in 1..n |-> i - 1]

\* C23: the finalize request is issued at most once; when it is issued every
\* call of uploadChunk has been fulfilled, and the totalChunks it declares is
\* the number n of chunks dispatched, which were dispatched with the indices
\* 0..n-1, each once.
C23_FinalizeOnceAfterAllChunks ==
  /\ Len(finalizeCalls) <= 1
  /\ finalizeCalls # <<>> =>
       LET n == finalizeCalls[1].totalChunks
       IN  /\ n = Len(dispatched)
           /\ dispatched = FirstIndices(n)
           /\ DOMAIN tasks = 0..(n - 1)
           /\ \A c \in DOMAIN tasks : tasks[c].status = "fulfilled"

\* finalize after three chunks, one of which was retried
C23_Witness ==
  /\ finalizeCalls = <<FinalizeCall(3)>>
  /\ \E c \in DOMAIN tasks : tasks[c].retries > 0
  /\ pc = "resolved"

\* C24: when the source is exhausted and has yielded no chunk, no finalize
\* request is issued and uploadChunked ends rejected with the empty-upload
\* error.
C24_EmptySourceFails ==
  (done /\ dispatched = <<>>) =>
    /\ finalizeCalls = <<>>
    /\ pc \in {"awaitAll", "rejected"}
    /\ pc = "rejected" => outcome = "No data to upload"

\* the empty source was read while cancel() had been called
C24_Witness ==
  /\ done
  /\ dispatched = <<>>
  /\ pc = "rejected"
  /\ outcome = "No data to upload"
  /\ cancelled

\* the bytes of the chunks whose upload has been fulfilled
RECURSIVE UploadedBytes(_)
UploadedBytes(n) ==
  IF n = 0 THEN 0
  ELSE UploadedBytes(n - 1)
       + (IF tasks[n - 1].status = "fulfilled" THEN Len(tasks[n - 1].chunkData) ELSE 0)

PollAnswered(p) == downloadStream_afterPoll(SwResolved(p))

\* the step sends a progress request
PollIssued == dlPc' = "poll" /\ dlPc # "poll"

\* downloadStream has run without falling back to downloadBlob
Streaming == strategy = "stream" /\ swInitError = "none"

\* C26: downloadStream raises the 'hung download' failure when, and only
\* when, 30 progress polls in a row have reported no change (hangs is their
\* number), and a poll that reports a change sets the count to zero.
C26_HangAfterThirtyPolls ==
  /\ [](hangs >= HangLimit => dlOutcome = HungDownload)
  /\ [](dlOutcome = HungDownload => hangs = HangLimit)
  /\ [][\A p \in 0..MaxFileSize : (PollAnswered(p) /\ p # prog) => hangs' = 0]_vars

\* C27 as stated: downloadStream ends complete only when the last progress
\* value the agent reported is at least fileInfo.size.
C27_CompleteOnlyAtFullProgress ==
  (strategy = "stream" /\ dlOutcome = "complete") =>
    /\ receiverState = "complete"
    /\ prog >= fileSize

\* C27, amended: downloadStream polls on while the progress reported is below
\* fileInfo.size, and ends complete only when the last progress value the
\* agent reported is at least fileInfo.size, or a progress request has
\* failed, or the init message failed and downloadBlob completed.
C27_CompleteAtFullProgressOrFailedPoll ==
  /\ (strategy = "stream" /\ dlOutcome = "complete") =>
       /\ receiverState = "complete"
       /\ prog >= fileSize \/ lastPoll = "failed" \/ swInitError # "none"
  /\ (Streaming /\ dlPc \in {"poll", "delay"}) => dlOutcome = "pending"
  /\ (Streaming /\ dlPc = "poll") => prog < fileSize

\* the agent has reported 1 and then 2 of 2 bytes
C27_Witness ==
  /\ strategy = "stream"
  /\ dlOutcome = "complete"
  /\ lastPoll = "answered"
  /\ fileSize = 2
  /\ prog = 2
  /\ hangs = 0

\* C28: when the init message fails, downloadStream polls nothing and calls
\* downloadBlob, and ends as downloadBlob ends: complete, or with the error
\* downloadBlob threw, never with the error of the init message.
C28_InitFailureFallsBack ==
  swInitError # "none" =>
    /\ strategy = "stream"
    /\ lastPoll = "none"
    /\ dlPc \in {"downloadFile", "blobResult", "settled"}
    /\ dlOutcome = blobOutcome
    /\ dlOutcome \notin SwFailures

\* the init message timed out and the blob download ended with Error(400)
C28_Witness ==
  /\ swInitError = "Service worker communication timeout"
  /\ dlPc = "settled"
  /\ dlOutcome = "400"
  /\ pagePc = "direct"

\* C29: once FileReceiver.cancel() has been called, a downloadStream that is
\* in its polling loop sends no further progress request, and when it ends it
\* ends cancelled, with Error(0).
C29_NoPollAfterCancel ==
  [][(Streaming /\ cancelCalled /\ dlPc \in {"poll", "delay"}) =>
       /\ ~PollIssued
       /\ dlPc' = "settled" => dlOutcome' = "0"]_vars

\* C30: a download that has ended with the 'hung download' error, which is
\* not the cancel sentinel, is the last one of its file: no download is
\* started after it, and the page ends with the failure.
C30_HangIsFatal ==
  \A i \in 1..Len(history) :
    history[i].outcome = HungDownload =>
      /\ DownloadErrorHandling(history[i].outcome) # "cancelled"
      /\ i = Len(history)
      /\ dlPc = "settled"
      /\ pagePc = "done" => pageOutcome = "/error"

(***************************************************************************)
(* Properties of the uploader: the answers that end a chunk.               *)
(***************************************************************************)
\* C31: a chunk whose fetch was answered 404 is not sent again: the fetch
\* answered 404 is the last fetch its call of uploadChunk makes.
C31_NotFoundIsTerminal ==
  \A c \in DOMAIN tasks :
    tasks[c].notFoundAt > 0 => tasks[c].attempts = tasks[c].notFoundAt
(***************************************************************************)
(* Properties of cleanupUpload, the reaper and the counters.               *)
(***************************************************************************)
\* the upload ids whose session a cleanup request has found in the registry
CleanedUp == {cleanupReqs[r].uploadId :
                r \in {k \in DOMAIN cleanupReqs : cleanupReqs[k].fileId # NoUploadId}}

\* every cleanup request received has been answered
CleanupsAnswered == \A r \in DOMAIN cleanupReqs : cleanupReqs[r].pc = "done"

\* C32: every cleanup request is answered with success, whether the upload id
\* is unknown or storage.delete fails; and when the cleanup requests of an
\* upload, one or several, one after the other or overlapping, have been
\* answered (no finalize request and no reaping in between), its session is
\* absent and activeUploads has been decremented once for it.
C32_CleanupIdempotent ==
  /\ \A r \in DOMAIN cleanupReqs :
       cleanupReqs[r].pc = "done" => cleanupReqs[r].status = 200
  /\ (CleanupsAnswered /\ finalizeReqs = <<>> /\ now = 0) =>
       /\ CleanedUp \cap DOMAIN uploadSessions = {}
       /\ systemMetrics.activeUploads =
            systemMetrics.totalUploads - Cardinality(CleanedUp)
\* the sessions the step removes from the registry
RemovedByStep == DOMAIN uploadSessions \ DOMAIN uploadSessions'

\* the step is a sweep of the reaper that finds a stale session: no request
\* handler removes a session without a finalize or cleanup request ending
ReapStep ==
  /\ RemovedByStep # {}
  /\ finalizeReqs' = finalizeReqs
  /\ cleanupReqs' = cleanupReqs

\* the step in which cleanup request r is answered after storage.delete
CleanupStep(r) ==
  /\ r \in DOMAIN cleanupReqs
  /\ cleanupReqs[r].pc = "awaitDelete"
  /\ cleanupReqs'[r].pc = "done"

\* C33: a sweep that reaps a stale session does to it what the cleanup of its
\* upload id does: the session is no longer in the registry, storage.delete
\* has been called with its file id, and activeUploads is one less (per
\* session reaped).
C33_ReapingIsCleanup ==
  [][/\ ReapStep =>
          /\ \A u \in RemovedByStep : Stale(uploadSessions[u], now)
          /\ \A u \in RemovedByStep : uploadSessions[u].fileId \in storageDeletes'
          /\ systemMetrics'.activeUploads =
               systemMetrics.activeUploads - Cardinality(RemovedByStep)
          /\ systemMetrics'.totalUploads = systemMetrics.totalUploads
      /\ \A r \in 1..MaxCleanupReqs : CleanupStep(r) =>
          /\ cleanupReqs[r].uploadId \notin DOMAIN uploadSessions'
          /\ cleanupReqs[r].fileId \in storageDeletes'
          /\ systemMetrics'.activeUploads = systemMetrics.activeUploads - 1
          /\ systemMetrics'.totalUploads = systemMetrics.totalUploads]_vars

\* a session has been reaped: no request has ended it, and storage.delete
\* has been called with its file id
C33_Witness ==
  /\ idsIssued = 1
  /\ uploadSessions = <<>>
  /\ finalizeReqs = <<>>
  /\ cleanupReqs = <<>>
  /\ storageDeletes = {1}
  /\ systemMetrics.activeUploads = 0

\* C34: in every state activeUploads is the number of sessions in the
\* registry, and totalUploads is the number of sessions ever created.
C34_CountersMatchRegistry ==
  /\ systemMetrics.activeUploads = Cardinality(DOMAIN uploadSessions)
  /\ systemMetrics.totalUploads = idsIssued
(***************************************************************************)
(* Properties of the digest check, on the recorded requests.               *)
(***************************************************************************)
\* the recorded request is a chunk request with a body for a session that
\* has verification enabled
ChunkForVerifyingSession(request) ==
  /\ request.op = "chunk"
  /\ request.uploadId \in DOMAIN uploadSessions
  /\ uploadSessions[request.uploadId].enableVerification
  /\ Len(request.rawBody) > 0

\* C36 as stated: a chunk request that a session with verification enabled
\* accepts declares a digest, and the digest recomputed over its bytes is the
\* declared one.
C36_StoredChunksVerified ==
  [][LET request == lastRequest'
     IN  (ChunkForVerifyingSession(request) /\ lastResponse'.status = 200) =>
           /\ request.chunkHash # NoHash
           /\ Digest(request.rawBody) = request.chunkHash]_vars

\* C36, amended: a chunk request that declares a digest is accepted by a
\* session with verification enabled only if the digest recomputed over its
\* bytes is the declared one; a request that declares none is stored and
\* counted without a check.
C36_StoredChunksVerifiedIfDeclared ==
  [][LET request == lastRequest'
         u == request.uploadId
         i == request.chunkIndex
     IN  ChunkForVerifyingSession(request) =>
           IF request.chunkHash # NoHash
           THEN lastResponse'.status = 200 =>
                  Digest(request.rawBody) = request.chunkHash
           ELSE /\ lastResponse'.status = 200
                /\ i \in DOMAIN uploadSessions'[u].chunks
                /\ uploadSessions'[u].chunks[i] = request.rawBody
                /\ uploadSessions'[u].receivedChunks =
                     Cardinality(DOMAIN uploadSessions'[u].chunks)]_vars

\* a session with verification enabled has stored a chunk whose request
\* declared no digest
C36_Witness ==
  /\ ChunkForVerifyingSession(lastRequest)
  /\ lastRequest.chunkHash = NoHash
  /\ lastResponse.status = 200
  /\ lastRequest.chunkIndex \in DOMAIN uploadSessions[lastRequest.uploadId].chunks
(***************************************************************************)
(* Properties of the reaper's threshold.                                   *)
(***************************************************************************)
\* C37: a sweep removes a session if and only if the session's lastActivity
\* is more than the timeout before the time of the sweep (a session whose age
\* is the timeout or less stays, with all it holds), and an accepted chunk
\* sets lastActivity to the time of its request, so that a stale session that
\* accepts a chunk is kept by the sweeps of the next hour.
C37_ReapedIffStale ==
  [][/\ sessionReaper =>
          \A u \in DOMAIN uploadSessions :
            IF now - uploadSessions[u].lastActivity > SessionTimeout
            THEN u \notin DOMAIN uploadSessions'
            ELSE /\ u \in DOMAIN uploadSessions'
                 /\ uploadSessions'[u] = uploadSessions[u]
     /\ (ChunkStep /\ lastResponse'.status = 200) =>
          uploadSessions'[lastRequest'.uploadId].lastActivity = now
    ]_vars

\* a session whose last activity was at time 0 has been reaped one
\* millisecond after the timeout
C37_Witness ==
  /\ idsIssued = 1
  /\ uploadSessions = <<>>
  /\ storageDeletes = {1}
  /\ now = SessionTimeout + 1
  /\ lastRequest.op # "status"
(***************************************************************************)
(* Properties of finalize beside cleanup and the reaper, and of a finalize *)
(* that fails.                                                             *)
(***************************************************************************)
\* C38: storage.delete is not called with the file id of a finalize request
\* that is answered with success: neither a cleanup of the session nor a
\* sweep deletes the artifact of a finalize that is awaiting storage.set.
C38_PersistedArtifactNotDeleted ==
  \A r \in DOMAIN finalizeReqs :
    finalizeReqs[r].status = 200 => finalizeReqs[r].fileId \notin storageDeletes

\* C39: a finalize request that fails, because receivedChunks is not the
\* declared totalChunks (400) or because an index below it is missing (500),
\* changes neither the registry (the session stays, with its chunk map,
\* receivedChunks and lastActivity) nor the counters nor the store, and is
\* not taken up again by the server once answered.
C39_FailedFinalizeChangesNothing ==
  [][/\ (FinalizeStep /\ ArrivedFinalize.uploadId \in DOMAIN uploadSessions) =>
          LET session == uploadSessions[ArrivedFinalize.uploadId]
              n == ArrivedFinalize.totalChunks
              failed == /\ ArrivedFinalize.pc = "done"
                        /\ uploadSessions' = uploadSessions
                        /\ systemMetrics' = systemMetrics
                        /\ storageFiles' = storageFiles
          IN  IF session.receivedChunks # n
              THEN failed /\ ArrivedFinalize.status = 400
              ELSE IF \E i \in 0..(n - 1) : i \notin DOMAIN session.chunks
              THEN failed /\ ArrivedFinalize.status = 500
              ELSE ArrivedFinalize.pc = "awaitSet"
     /\ \A r \in DOMAIN finalizeReqs :
          finalizeReqs[r].pc = "done" => finalizeReqs'[r] = finalizeReqs[r]
    ]_vars

\* a finalize was refused for a missing chunk, the chunk arrived, and the
\* next finalize of the session succeeded
C39_Witness ==
  /\ Len(finalizeReqs) = 2
  /\ finalizeReqs[1].status = 400
  /\ finalizeReqs[1].totalChunks = 2
  /\ finalizeReqs[2].status = 200
  /\ finalizeReqs[2].totalChunks = 2
  /\ finalizeReqs[2].uploadId = finalizeReqs[1].uploadId
  /\ finalizeReqs[2].fileId \in DOMAIN storageFiles
(***************************************************************************)
(* Properties of chunk requests that arrive at the same time.              *)
(***************************************************************************)
\* the step in which the handler accepts the chunk request of slot k
AcceptStep(k) ==
  /\ receiving[k].at = "receiving"
  /\ receiving'[k].at = "idle"
  /\ lastResponse'.status = 200

\* C35: whatever the order in which the bodies of concurrent chunk requests
\* arrive, each request is handled in one piece: receivedChunks is the number
\* of indices in the chunk map in every state, an accepted request stores all
\* the bytes the client sent at its index, and no step removes an index or
\* changes the bytes of an index other than the one it accepts.
C35_AcceptsSerialized ==
  /\ [](\A u \in DOMAIN uploadSessions :
          uploadSessions[u].receivedChunks =
            Cardinality(DOMAIN uploadSessions[u].chunks))
  /\ [][/\ \A k \in Slots : AcceptStep(k) =>
              LET u == receiving[k].uploadId
                  i == receiving[k].chunkIndex
              IN  /\ i \in DOMAIN uploadSessions'[u].chunks
                  /\ uploadSessions'[u].chunks[i] = receiving[k].sent
        /\ \A u \in DOMAIN uploadSessions : \A i \in DOMAIN uploadSessions[u].chunks :
              /\ u \in DOMAIN uploadSessions'
              /\ i \in DOMAIN uploadSessions'[u].chunks
              /\ uploadSessions'[u].chunks[i] # uploadSessions[u].chunks[i] =>
                    \E k \in Slots : /\ AcceptStep(k)
                                      /\ receiving[k].uploadId = u
                                      /\ receiving[k].chunkIndex = i
       ]_vars

\* two chunk requests of one session are being received while the session
\* holds a chunk that a third request delivered
C35_Witness ==
  /\ receiving[1].at = "receiving"
  /\ receiving[2].at = "receiving"
  /\ receiving[1].uploadId = receiving[2].uploadId
  /\ receiving[1].chunkIndex # receiving[2].chunkIndex
  /\ Len(receiving[1].body) = 1
  /\ receiving[1].uploadId \in DOMAIN uploadSessions
  /\ uploadSessions[receiving[1].uploadId].receivedChunks = 2
====
